---- MODULE Spec2Model ----
(***************************************************************************)
(* Model of the Virtualizer of packages/core/src/index.ts (first variant,  *)
(* lines 1-738), with Rectangle, Anchor and the array helpers it uses.     *)
(*                                                                         *)
(* Lengths (heights, offsets, viewport coordinates) are integers counted   *)
(* in half CSS pixels, so that a fractional measurement (1.5px) and the    *)
(* floor and ceil the code applies to it are exact.  Slices are 0-based    *)
(* half-open index ranges as in the code; sequences are 1-based.           *)
(***************************************************************************)
EXTENDS Integers, Sequences, FiniteSets, TLC

VARIABLES
    opts,                \* _options: assumedItemHeight, viewport height, buffer ratios
    list,                \* _list
    renderedItems,       \* _renderedItems
    slice,               \* _slice
    listHeightWithHeadRoom, \* _listHeightWithHeadRoom
    heights,             \* _heights           (Map itemId -> height)
    pendingHeightUpdates,\* _pendingHeightUpdates (Map itemId -> height)
    cells,               \* _cells             (Map node -> itemId)
    domHeight,           \* node.getBoundingClientRect().height of each registered node
    isIdle,              \* _isIdle
    isInitialAnchoring,  \* _isInitialAnchoring
    lastUpdateReason,    \* _lastUpdateReason
    viewport,            \* _viewport: "none" before mount(), "mounted" after, and
                         \* "detached" once the teardown removed the listeners
    viewTop,             \* top of the viewport rectangle relative to the root element
    rafQueue,            \* number of queued requestAnimationFrame(() => _update())
    throttleState,       \* lodash.throttle of _scheduleCriticalUpdateThrottled
    scrollEndPending,    \* lodash.debounce timer of _updateScrollEnd is running
    cycle,               \* what the last run of _update did (observation only)
    runs,                \* completed cycles in a row with nothing else in between
    events,              \* number of calls and events the environment has issued
    probe,               \* inputs and result of one application of a function
    zones                \* _edgeProximity: the state of each proximity zone

vars == <<opts, list, renderedItems, slice, listHeightWithHeadRoom, heights,
          pendingHeightUpdates, cells, domHeight, isIdle, isInitialAnchoring,
          lastUpdateReason, viewport, viewTop, rafQueue, throttleState,
          scrollEndPending, cycle, runs, events, probe, zones>>

(***************************************************************************)
(* Bounds of the model.                                                    *)
(***************************************************************************)
NumIds == 3          \* item ids are 1..NumIds
MaxLen == 3          \* longest list setList supplies
MaxEvents == 4       \* most calls and events of the environment in one behaviour

(***************************************************************************)
(* Program constants.                                                      *)
(***************************************************************************)
MAX_ITEMS_TO_RENDER_AT_ONCE == 50
PENDING_FLUSH_THRESHOLD == 50
DevicePixelRatio == 1

HEIGHT_CHANGE == "changeHeight"
NoReason == "undefined"

(***************************************************************************)
(* Numbers: whole CSS pixels to half pixels, Math.floor and Math.ceil.     *)
(***************************************************************************)
Px(n) == 2 * n
Floor(u) == Px(u \div 2)
Ceil(u) == Px((u + 1) \div 2)
Max(a, b) == IF a >= b THEN a ELSE b
Min(a, b) == IF a <= b THEN a ELSE b

\* the numbers that are not finite, and the missing value, as a measurement may
\* report them: coded as integers beyond every length of the model
Infinity == 1000000
NegInfinity == 0 - Infinity
NaN == Infinity + 1
Undefined == Infinity + 2
NonFinite == {NaN, Infinity, NegInfinity}

\* typeof v === 'number'
IsTypeNumber(v) == v # Undefined
\* a < b for numbers: false when either is NaN
LessThan(a, b) == a # NaN /\ b # NaN /\ a < b
\* a === b for numbers: false when either is NaN
StrictEquals(a, b) == a # NaN /\ b # NaN /\ a = b
\* Math.floor
MathFloor(v) == IF v \in NonFinite THEN v ELSE Floor(v)

\* variant: Math.floor in place of Math.ceil
RoundDownToDevicePixelRatio(cssPixels, dpr) ==
    Floor(cssPixels * dpr) \div dpr

\* utils/ratio.ts: Math.ceil(cssPixels * dpr) / dpr
RoundToDevicePixelRatio(cssPixels, dpr) ==
    Ceil(cssPixels * dpr) \div dpr

(***************************************************************************)
(* Maps (partial functions) and arrays.                                    *)
(***************************************************************************)
EmptyMap == [x \in {} |-> 0]
Has(m, k) == k \in DOMAIN m
MapSet(m, k, v) == [x \in DOMAIN m \cup {k} |-> IF x = k THEN v ELSE m[x]]
MapDelete(m, k) == [x \in DOMAIN m \ {k} |-> m[x]]

\* utils/array: first and last return undefined on an empty array; here a
\* sequence of at most one element
First(arr) == IF Len(arr) = 0 THEN <<>> ELSE <<arr[1]>>
Last(arr) == IF Len(arr) = 0 THEN <<>> ELSE <<arr[Len(arr)]>>

\* Array.prototype.slice(start, end) for 0 <= start, 0 <= end
ArraySlice(arr, start, end) ==
    LET e == Min(end, Len(arr))
    IN  IF start >= e THEN <<>> ELSE SubSeq(arr, start + 1, e)

\* Array.prototype.indexOf of a projected item, 0-based (item ids are distinct)
FindIndexOfItemId(allItems, itemId) ==
    (CHOOSE i \in 1..Len(allItems) : allItems[i].itemId = itemId) - 1

\* Array.prototype.findIndex for "id === targetItemId", 0-based, -1 if absent
FindIndex(l, targetItemId) ==
    IF \E i \in 1..Len(l) : l[i].id = targetItemId
    THEN (CHOOSE i \in 1..Len(l) :
            /\ l[i].id = targetItemId
            /\ \A j \in 1..(i - 1) : l[j].id # targetItemId) - 1
    ELSE 0 - 1

(***************************************************************************)
(* geo/Rectangle                                                           *)
(***************************************************************************)
Rectangle(top, height) == [top |-> top, height |-> height]
GetBottom(r) == r.top + r.height
\* variant: rectangles that only touch count as intersecting
DoesIntersectWithClosed(r, other) ==
    GetBottom(r) >= other.top /\ r.top <= GetBottom(other)

DoesIntersectWith(r, other) ==
    GetBottom(r) > other.top /\ r.top < GetBottom(other)

\* geo/Anchor: the class used both for the anchor and for projected items
Anchor(itemId, offset, visible, canBeAnchor, height) ==
    [itemId |-> itemId, offset |-> offset, visible |-> visible,
     canBeAnchor |-> canBeAnchor, height |-> height]
GetRectInViewport(a) == Rectangle(a.offset, a.height)

(***************************************************************************)
(* Inputs: the lists setList may supply, the heights the DOM may have and  *)
(* the heights a ResizeObserver entry may report.                          *)
(***************************************************************************)
Ids == 1..NumIds
Nodes == Ids                      \* the element that displays item id is node id

\* ListItem: id and canBeAnchor (data and sortIndex are never read by the engine
\* here); item 1 is the one that may not serve as an anchor
ListItem(id) == [id |-> id, canBeAnchor |-> id # 1]

RECURSIVE IdSeqs(_)
IdSeqs(n) ==
    IF n = 0 THEN {<<>>}
    ELSE LET shorter == IdSeqs(n - 1)
         IN  shorter \cup
             {Append(s, id) : s \in {t \in shorter : Len(t) = n - 1}, id \in Ids}

IsInjective(s) == \A i, j \in 1..Len(s) : i # j => s[i] # s[j]

\* every list of at most MaxLen items with distinct ids, in any order
Lists ==
    {[i \in 1..Len(s) |-> ListItem(s[i])] : s \in {t \in IdSeqs(MaxLen) : IsInjective(t)}}

DomHeights == {Px(1), Px(1) + 1}      \* 1px and 1.5px
ReportedHeights == {Px(1) + 1}        \* contentRect.height 1.5px
ScrollPositions == {0 - 1, 0, 3, 6}

Ratio(num, den) == [num |-> num, den |-> den]

\* the options of the engine runs: assumed height 1px, viewport 1px high,
\* minimum ratio 0.5, preferred ratio 2
EngineOptions ==
    [assumedItemHeight |-> Px(1), viewportHeight |-> Px(1),
     minimumOffscreenToViewportRatio |-> Ratio(1, 2),
     preferredOffscreenToViewportRatio |-> Ratio(2, 1),
     rootElement |-> TRUE]

(***************************************************************************)
(* Height resolution                                                       *)
(***************************************************************************)
\* utils/number isNumber: typeof value === 'number' && Number.isFinite(value)
IsNumber(v) == IsTypeNumber(v) /\ v \notin NonFinite

\* variant: the ledger is not consulted, every item has the assumed height
GetAssumedHeightForItemId(h, o, itemId) ==
    RoundToDevicePixelRatio(o.assumedItemHeight, DevicePixelRatio)

GetHeightForItemId(h, o, itemId) ==
    LET height == IF Has(h, itemId) /\ IsNumber(h[itemId])
                  THEN h[itemId]
                  ELSE o.assumedItemHeight
    IN  RoundToDevicePixelRatio(height, DevicePixelRatio)

GetHeight(h, o, item) == GetHeightForItemId(h, o, item.id)

(***************************************************************************)
(* Anchor resolution                                                       *)
(***************************************************************************)
\* _itemMap: Map from id to the list's item (a later duplicate id overwrites)
ItemMapGet(l, itemId) ==
    l[CHOOSE i \in 1..Len(l) :
        /\ l[i].id = itemId
        /\ \A j \in (i + 1)..Len(l) : l[j].id # itemId]

\* _finalRenderedItems: the rendered items whose id is still in the list, each
\* with the list's current item
GetFinalRenderedItems(l, rendered) ==
    LET InList(state) == \E i \in 1..Len(l) : l[i].id = state.itemId
        kept == SelectSeq(rendered, InList)
    IN  [i \in 1..Len(kept) |->
            [item |-> ItemMapGet(l, kept[i].itemId),
             offset |-> kept[i].offset, visible |-> kept[i].visible]]

\* variant: the candidates in the order of the list instead of the order of
\* the rendered items
GetAnchorItemCandidatesInListOrder(l, rendered, h) ==
    LET final == GetFinalRenderedItems(l, rendered)
        IsPotentialAnchor(item) ==
            /\ item.canBeAnchor /\ Has(h, item.id)
            /\ \E i \in 1..Len(final) : final[i].item.id = item.id
        ordered == SelectSeq(l, IsPotentialAnchor)
    IN  [k \in 1..Len(ordered) |->
            final[CHOOSE i \in 1..Len(final) : final[i].item.id = ordered[k].id]]

GetAnchorItemCandidates(l, rendered, h) ==
    LET IsPotentialAnchor(c) == c.item.canBeAnchor /\ Has(h, c.item.id)
    IN  SelectSeq(GetFinalRenderedItems(l, rendered), IsPotentialAnchor)

\* variant: an empty list is anchored at the origin instead of having no anchor
GetAnchorOrOrigin(l, rendered, h) ==
    LET firstCandidate == First(GetAnchorItemCandidates(l, rendered, h))
        firstOverall == First(l)
    IN  IF firstCandidate # <<>>
        THEN <<[itemId |-> firstCandidate[1].item.id,
                offset |-> firstCandidate[1].offset, rule |-> 1]>>
        ELSE IF firstOverall # <<>>
        THEN <<[itemId |-> firstOverall[1].id, offset |-> 0, rule |-> 2]>>
        ELSE <<[itemId |-> 0, offset |-> 0, rule |-> 2]>>

\* _getAnchor: <<>> is undefined; rule is 1 for a rendered candidate, 2 for the
\* first item of the list
GetAnchor(l, rendered, h) ==
    LET firstCandidate == First(GetAnchorItemCandidates(l, rendered, h))
        firstOverall == First(l)
    IN  IF firstCandidate # <<>>
        THEN <<[itemId |-> firstCandidate[1].item.id,
                offset |-> firstCandidate[1].offset, rule |-> 1]>>
        ELSE IF firstOverall # <<>>
        THEN <<[itemId |-> firstOverall[1].id, offset |-> 0, rule |-> 2]>>
        ELSE <<>>

\* variant: heights of ids that are absent from the list are dropped
MeasureHeightsWithinList(h, c, dom) ==
    LET measured == {c[n] : n \in DOMAIN c}
        NodeOf(id) == CHOOSE n \in DOMAIN c : c[n] = id
        listed == {list[i].id : i \in 1..Len(list)}
    IN  [id \in (DOMAIN h \cup measured) \cap listed |->
            IF id \in measured THEN dom[NodeOf(id)] ELSE h[id]]

\* _measureHeights: the bounding height of every registered node is committed
\* directly (getBoundingClientRect().height is a number >= 0)
MeasureHeights(h, c, dom) ==
    LET measured == {c[n] : n \in DOMAIN c}
        NodeOf(id) == CHOOSE n \in DOMAIN c : c[n] = id
    IN  [id \in DOMAIN h \cup measured |->
            IF id \in measured THEN dom[NodeOf(id)] ELSE h[id]]

(***************************************************************************)
(* Position projection                                                     *)
(***************************************************************************)
\* the reduce of _getDistanceFromTop over list.slice(0, n)
RECURSIVE SumHeights(_, _, _, _)
SumHeights(l, h, o, n) ==
    IF n = 0 THEN 0 ELSE SumHeights(l, h, o, n - 1) + GetHeight(h, o, l[n])

\* variant: the sum includes the target item's own height
GetDistanceFromTopInclusive(l, h, o, targetItemId) ==
    LET targetIndex == FindIndex(l, targetItemId)
    IN  IF targetIndex < 0 THEN 0 ELSE SumHeights(l, h, o, targetIndex + 1)

GetDistanceFromTop(l, h, o, targetItemId) ==
    LET targetIndex == FindIndex(l, targetItemId)
    IN  IF targetIndex <= 0 THEN 0 ELSE SumHeights(l, h, o, targetIndex)

\* the forEach of _getItemsWithPositions from item i on, with its running offset
RECURSIVE WalkItems(_, _, _, _, _)
WalkItems(l, h, o, i, currentOffset) ==
    IF i > Len(l) THEN <<>>
    ELSE LET height == GetHeight(h, o, l[i])
         IN  <<Anchor(l[i].id, currentOffset, Has(h, l[i].id), l[i].canBeAnchor, height)>>
             \o WalkItems(l, h, o, i + 1, currentOffset + height)

\* variant: the walk starts at the anchor's offset, as if the anchor were the
\* first item
GetItemsWithPositionsFromAnchorOffset(l, h, o, anchor) ==
    IF Len(l) = 0 THEN <<>> ELSE WalkItems(l, h, o, 1, anchor.offset)

GetItemsWithPositions(l, h, o, anchor) ==
    IF Len(l) = 0 THEN <<>>
    ELSE LET anchorDistanceTop == GetDistanceFromTop(l, h, o, anchor.itemId)
         IN  WalkItems(l, h, o, 1, anchor.offset - anchorDistanceTop)

(***************************************************************************)
(* Window selection                                                        *)
(***************************************************************************)
\* ratio * viewportRect.getHeight(); the options keep the product integral
\* variant: the buffer extends the viewport only below
GetBufferedViewportBelow(viewportRect, ratio) ==
    LET bufferHeight == (ratio.num * viewportRect.height) \div ratio.den
    IN  Rectangle(viewportRect.top, viewportRect.height + bufferHeight)

GetBufferedViewport(viewportRect, ratio) ==
    LET bufferHeight == (ratio.num * viewportRect.height) \div ratio.den
    IN  Rectangle(viewportRect.top - bufferHeight,
                  viewportRect.height + 2 * bufferHeight)

Slice(start, end) == [start |-> start, end |-> end]

IndexOf(allItems, x) == FindIndexOfItemId(allItems, x.itemId)

GetSliceForCandidates(candidates, allItems) ==
    LET firstCandidate == First(candidates)
        lastCandidate == Last(candidates)
    IN  Slice(IF firstCandidate # <<>> THEN IndexOf(allItems, firstCandidate[1]) ELSE 0,
              IF lastCandidate # <<>> THEN IndexOf(allItems, lastCandidate[1]) + 1 ELSE 0)

\* variant: no hysteresis, the candidate slice is always taken
AdjustSliceToCandidate(prevSlice, nextSlice, usePreferredBuffer) == nextSlice

\* variant: overlapping slices are merged into the span of both
AdjustSliceToUnion(prevSlice, nextSlice, usePreferredBuffer) ==
    IF usePreferredBuffer THEN nextSlice
    ELSE IF nextSlice.start >= prevSlice.end \/ nextSlice.end <= prevSlice.start
    THEN nextSlice
    ELSE Slice(Min(prevSlice.start, nextSlice.start), Max(prevSlice.end, nextSlice.end))

AdjustSlice(prevSlice, nextSlice, usePreferredBuffer) ==
    IF usePreferredBuffer THEN nextSlice
    ELSE IF /\ nextSlice.start >= prevSlice.start
            /\ nextSlice.end <= prevSlice.end
            /\ prevSlice.end - prevSlice.start <= MAX_ITEMS_TO_RENDER_AT_ONCE
    THEN prevSlice
    ELSE IF nextSlice.start >= prevSlice.end \/ nextSlice.end <= prevSlice.start
    THEN nextSlice
    ELSE LET expansion == Max(Max(prevSlice.start - nextSlice.start,
                                  nextSlice.end - prevSlice.end), 0)
         IN  Slice(Min(prevSlice.start + expansion, nextSlice.start),
                   Max(prevSlice.end - expansion, nextSlice.end))

\* variant: the initial anchoring is not consulted
UsePreferredBufferWhenIdle(idle, initialAnchoring) == idle

UsePreferredBuffer(idle, initialAnchoring) == idle /\ ~initialAnchoring

\* _getRenderCandidates
GetRenderCandidates(l, h, o, prevSlice, idle, initialAnchoring, anchor, relativeViewportRect) ==
    LET minBufferRect ==
            GetBufferedViewport(relativeViewportRect, o.minimumOffscreenToViewportRatio)
        preferredBufferRect ==
            GetBufferedViewport(relativeViewportRect, o.preferredOffscreenToViewportRatio)
        usePreferredBuffer == UsePreferredBuffer(idle, initialAnchoring)
        targetBufferRect == IF usePreferredBuffer THEN preferredBufferRect ELSE minBufferRect
        allItemsWithPositions == GetItemsWithPositions(l, h, o, anchor)
        Intersects(itemState) ==
            DoesIntersectWith(GetRectInViewport(itemState), targetBufferRect)
        candidateItems == SelectSeq(allItemsWithPositions, Intersects)
        candidateSlice == GetSliceForCandidates(candidateItems, allItemsWithPositions)
        newSlice == AdjustSlice(prevSlice, candidateSlice, usePreferredBuffer)
    IN  [allItemsWithPositions |-> allItemsWithPositions,
         newRenderedItems |-> ArraySlice(allItemsWithPositions, newSlice.start, newSlice.end),
         slice |-> newSlice,
         arePreferredItemsRendered |-> usePreferredBuffer,
         candidateSlice |-> candidateSlice,
         targetBufferRect |-> targetBufferRect]

\* variant: an empty rendered set is not ready
GetIsHeightsReadyNonEmpty(h, rendered) ==
    Len(rendered) > 0 /\ \A i \in 1..Len(rendered) : Has(h, rendered[i].itemId)

GetIsHeightsReady(h, rendered) ==
    Len(rendered) = 0 \/ \A i \in 1..Len(rendered) : Has(h, rendered[i].itemId)

\* variant: the distance between the tops of the two items
GetHeightBetweenTops(firstItemState, lastItemState) ==
    IF firstItemState = <<>> \/ lastItemState = <<>> THEN 0
    ELSE GetRectInViewport(lastItemState[1]).top
         - GetRectInViewport(firstItemState[1]).top

GetHeightBetweenItems(firstItemState, lastItemState) ==
    IF firstItemState = <<>> \/ lastItemState = <<>> THEN 0
    ELSE GetBottom(GetRectInViewport(lastItemState[1]))
         - GetRectInViewport(firstItemState[1]).top

\* variant: the update reason is not consulted
ShouldTriggerOnSliceChange(sliceChanged, reason) == sliceChanged

ShouldTriggerOnChange(sliceChanged, reason) ==
    sliceChanged \/ reason = HEIGHT_CHANGE

(***************************************************************************)
(* The update cycle                                                        *)
(***************************************************************************)
\* the engine state a cycle starts from, kept for the record of the cycle
Before(h0, reason) ==
    [list |-> list, renderedItems |-> renderedItems, slice |-> slice,
     heights |-> h0, isIdle |-> isIdle, isInitialAnchoring |-> isInitialAnchoring,
     lastUpdateReason |-> reason, listHeightWithHeadRoom |-> listHeightWithHeadRoom,
     usedPreferredBuffer |-> cycle.usePreferredBuffer, zones |-> zones]

NoCycle ==
    [status |-> "none", anchor |-> <<>>, allItemsWithPositions |-> <<>>,
     candidateSlice |-> Slice(0, 0), usePreferredBuffer |-> FALSE,
     targetBufferRect |-> Rectangle(0, 0), onChange |-> FALSE, before |-> <<>>,
     positioning |-> <<>>, triggers |-> <<>>]

(***************************************************************************)
(* Positioning snapshot and proximity zones                                *)
(***************************************************************************)
\* geo/Positioning: the snapshot of one cycle
Positioning(viewportRect, listRect, listLength, rendered) ==
    [viewportRect |-> viewportRect, listRect |-> listRect, listLength |-> listLength,
     renderedItems |-> rendered]
GetForList(p) == p.listRect
GetForViewport(p) == p.viewportRect
GetListLength(p) == p.listLength

INSIDE == "inside"
OUTSIDE == "outside"
NoProximity == "undefined"
MOVEMENT == "movement"
LIST_UPDATE == "list_update"
INITIAL_POSITION == "initial_position"
NoTrigger == "null"

\* a zone condition: threshold num/den, in half pixels for nearTop and
\* nearBottom, of the viewport height for the ratio conditions
ZoneCondition(kind, num, den) == [kind |-> kind, num |-> num, den |-> den]

\* the zones mount() creates: at start (5px), near start (ratio 0.25), near end
\* (ratio 1.75), at end (5px)
ZoneDefinitions ==
    <<ZoneCondition("nearTop", Px(5), 1), ZoneCondition("nearTopRatio", 1, 4),
      ZoneCondition("nearBottomRatio", 7, 4), ZoneCondition("nearBottom", Px(5), 1)>>

\* isNearTop, isNearBottom, isNearTopRatio, isNearBottomRatio; comparisons are
\* multiplied by the threshold's denominator
IsNear(zone, listRect, viewportRect) ==
    LET fromTop == viewportRect.top - listRect.top
        fromBottom == GetBottom(listRect) - GetBottom(viewportRect)
    IN  CASE zone.kind = "nearTop" -> zone.den * fromTop <= zone.num
          [] zone.kind = "nearBottom" -> zone.den * fromBottom <= zone.num
          [] zone.kind = "nearTopRatio" ->
                 zone.den * fromTop <= viewportRect.height * zone.num
          [] zone.kind = "nearBottomRatio" ->
                 zone.den * fromBottom <= viewportRect.height * zone.num

\* the state {} of a zone nothing was stored in yet
NoZoneState == [proximity |-> NoProximity, listLength |-> Undefined]
InitialZoneStates == [z \in 1..Len(ZoneDefinitions) |-> NoZoneState]

\* variant: a zone that stays inside never triggers
CalculateProximityTriggerOnEntry(prevProximity, prevListLength, currentProximity, currentListLength) ==
    IF prevProximity = NoProximity /\ currentProximity = INSIDE THEN INITIAL_POSITION
    ELSE IF prevProximity = OUTSIDE /\ currentProximity = INSIDE THEN MOVEMENT
    ELSE NoTrigger

CalculateProximityTrigger(prevProximity, prevListLength, currentProximity, currentListLength) ==
    LET wasOutside_nowInside ==
            prevProximity = NoProximity /\ currentProximity = INSIDE
        wasOutside_becameInside ==
            prevProximity = OUTSIDE /\ currentProximity = INSIDE
        stayedInside_listChanged ==
            /\ prevProximity = INSIDE
            /\ currentProximity = INSIDE
            /\ currentListLength # prevListLength
    IN  IF wasOutside_nowInside THEN INITIAL_POSITION
        ELSE IF wasOutside_becameInside THEN MOVEMENT
        ELSE IF stayedInside_listChanged THEN LIST_UPDATE
        ELSE NoTrigger

\* variant: the zone does not store what it evaluated
HandleZoneWithoutState(zone, state, positioningData) ==
    LET currentProximity ==
            IF IsNear(zone, GetForList(positioningData), GetForViewport(positioningData))
            THEN INSIDE ELSE OUTSIDE
        currentListLength == GetListLength(positioningData)
    IN  [state |-> state,
         triggerCause |-> CalculateProximityTrigger(state.proximity, state.listLength,
                                                    currentProximity, currentListLength)]

\* the body of the forEach of handlePositioningUpdate for one zone: the state
\* it stores and the cause it calls back with (NoTrigger: no callback)
HandleZone(zone, state, positioningData) ==
    LET currentProximity ==
            IF IsNear(zone, GetForList(positioningData), GetForViewport(positioningData))
            THEN INSIDE ELSE OUTSIDE
        currentListLength == GetListLength(positioningData)
    IN  [state |-> [proximity |-> currentProximity, listLength |-> currentListLength],
         triggerCause |-> CalculateProximityTrigger(state.proximity, state.listLength,
                                                    currentProximity, currentListLength)]

\* ProximityZoneManager.handlePositioningUpdate
HandlePositioningUpdate(zoneStates, positioningData) ==
    [zones |-> [z \in 1..Len(ZoneDefinitions) |->
                   HandleZone(ZoneDefinitions[z], zoneStates[z], positioningData).state],
     triggers |-> [z \in 1..Len(ZoneDefinitions) |->
                      HandleZone(ZoneDefinitions[z], zoneStates[z],
                                 positioningData).triggerCause]]

\* variant: the snapshot is built whether or not the heights are ready
UpdatePositioningAlways(h, rendered, relativeViewportRect, firstItem, newListHeight) ==
    <<Positioning(relativeViewportRect,
                  Rectangle(IF firstItem # <<>>
                            THEN GetRectInViewport(firstItem[1]).top ELSE 0,
                            newListHeight),
                  Len(list),
                  [i \in 1..Len(rendered) |->
                      [id |-> rendered[i].itemId,
                       rectangle |-> Rectangle(rendered[i].offset,
                           GetHeightForItemId(h, opts, rendered[i].itemId))]])>>

\* _updatePositioning: <<>> when some rendered item has no committed height,
\* else the snapshot handed to onPositionUpdate and to the proximity manager
UpdatePositioning(h, rendered, relativeViewportRect, firstItem, newListHeight) ==
    IF ~GetIsHeightsReady(h, rendered) THEN <<>>
    ELSE <<Positioning(relativeViewportRect,
                       Rectangle(IF firstItem # <<>>
                                 THEN GetRectInViewport(firstItem[1]).top ELSE 0,
                                 newListHeight),
                       Len(list),
                       [i \in 1..Len(rendered) |->
                           [id |-> rendered[i].itemId,
                            rectangle |-> Rectangle(rendered[i].offset,
                                GetHeightForItemId(h, opts, rendered[i].itemId))]])>>

\* _updateRenderedItems
UpdateRenderedItems(h0, h1, reason, anchor, relativeViewportRect) ==
    LET c == GetRenderCandidates(list, h1, opts, slice, isIdle, isInitialAnchoring,
                                 anchor, relativeViewportRect)
        listHeight == GetHeightBetweenItems(First(c.allItemsWithPositions),
                                            Last(c.allItemsWithPositions))
        areHeightsReadyForRender == GetIsHeightsReady(h1, c.newRenderedItems)
        sliceChanged == slice # c.slice
        trigger == ShouldTriggerOnChange(sliceChanged, reason)
        positioning == UpdatePositioning(h1, c.newRenderedItems, relativeViewportRect,
                                         First(c.allItemsWithPositions), listHeight)
        proximity == IF positioning = <<>> THEN [zones |-> zones, triggers |-> <<>>]
                     ELSE HandlePositioningUpdate(zones, positioning[1])
    IN  [completed |-> TRUE,
         zones |-> proximity.zones,
         heights |-> h1,
         renderedItems |-> c.newRenderedItems,
         listHeightWithHeadRoom |-> listHeight,
         isInitialAnchoring |-> IF areHeightsReadyForRender THEN FALSE
                                ELSE isInitialAnchoring,
         slice |-> IF trigger THEN c.slice ELSE slice,
         lastUpdateReason |-> NoReason,
         cycle |-> [status |-> "completed", anchor |-> <<anchor>>,
                    allItemsWithPositions |-> c.allItemsWithPositions,
                    candidateSlice |-> c.candidateSlice,
                    usePreferredBuffer |-> c.arePreferredItemsRendered,
                    targetBufferRect |-> c.targetBufferRect,
                    onChange |-> trigger, before |-> <<Before(h0, reason)>>,
                    positioning |-> positioning, triggers |-> proximity.triggers]]

\* what a cycle that returned early leaves behind: status is "noViewport",
\* "noRect" or "noAnchor"
EarlyReturn(status, h0, h1, reason) ==
    [completed |-> FALSE, zones |-> zones, heights |-> h1, renderedItems |-> renderedItems,
     listHeightWithHeadRoom |-> listHeightWithHeadRoom,
     isInitialAnchoring |-> isInitialAnchoring, slice |-> slice,
     lastUpdateReason |-> reason,
     cycle |-> [NoCycle EXCEPT !.status = status, !.before = <<Before(h0, reason)>>]]

\* variant: the viewport rectangle is taken without the root element
UpdateWithoutRootElement(vp, h0, reason) ==
    IF vp = "none" THEN EarlyReturn("noViewport", h0, h0, reason)
    ELSE LET relativeViewportRect == Rectangle(viewTop, opts.viewportHeight)
             anchor == GetAnchor(list, renderedItems, h0)
             h1 == MeasureHeights(h0, cells, domHeight)
         IN  IF anchor = <<>> THEN EarlyReturn("noAnchor", h0, h1, reason)
             ELSE UpdateRenderedItems(h0, h1, reason, anchor[1], relativeViewportRect)

\* _update, run with the viewport vp, the ledger h0 and the update reason;
\* _measureRelativeViewportRect is undefined without a root element
Update(vp, h0, reason) ==
    IF vp = "none" THEN EarlyReturn("noViewport", h0, h0, reason)
    ELSE IF ~opts.rootElement THEN EarlyReturn("noRect", h0, h0, reason)
    ELSE LET relativeViewportRect == Rectangle(viewTop, opts.viewportHeight)
             anchor == GetAnchor(list, renderedItems, h0)
             h1 == MeasureHeights(h0, cells, domHeight)
         IN  IF anchor = <<>> THEN EarlyReturn("noAnchor", h0, h1, reason)
             ELSE UpdateRenderedItems(h0, h1, reason, anchor[1], relativeViewportRect)

\* the engine state after a run of _update; consecutive is the number of
\* completed cycles that ran just before it with nothing in between
Apply(out, consecutive) ==
    /\ heights' = out.heights
    /\ renderedItems' = out.renderedItems
    /\ slice' = out.slice
    /\ listHeightWithHeadRoom' = out.listHeightWithHeadRoom
    /\ isInitialAnchoring' = out.isInitialAnchoring
    /\ lastUpdateReason' = out.lastUpdateReason
    /\ cycle' = out.cycle
    /\ zones' = out.zones
    /\ runs' = IF out.completed THEN Min(consecutive + 1, 2) ELSE 0

NoUpdate ==
    /\ cycle' = NoCycle
    /\ runs' = 0
    /\ UNCHANGED <<renderedItems, slice, listHeightWithHeadRoom, isInitialAnchoring,
                   zones>>

(***************************************************************************)
(* Scheduling                                                              *)
(***************************************************************************)
\* _scheduleCriticalUpdate: requestAnimationFrame(() => this._update())
ScheduleCriticalUpdate(q) == q + 1

(***************************************************************************)
(* Operations                                                              *)
(***************************************************************************)
\* one more call or event of the environment, of at most MaxEvents
Event == events < MaxEvents /\ events' = events + 1

\* mount(): creates the viewport, attaches the listeners and runs _update
Mount ==
    /\ UNCHANGED events
    /\ viewport = "none"
    /\ viewport' = "mounted"
    /\ Apply(Update("mounted", heights, lastUpdateReason), 0)
    /\ UNCHANGED <<opts, list, pendingHeightUpdates, cells, domHeight, isIdle, viewTop,
                   rafQueue, throttleState, scrollEndPending, probe>>

\* the teardown function mount() returned: removes the scroll listener and
\* the rect change listener; _viewport stays set and nothing that was
\* scheduled is cancelled
Teardown ==
    /\ UNCHANGED events
    /\ viewport = "mounted"
    /\ viewport' = "detached"
    /\ NoUpdate
    /\ UNCHANGED <<opts, list, heights, pendingHeightUpdates, cells, domHeight, isIdle,
                   lastUpdateReason, viewTop, rafQueue, throttleState, scrollEndPending,
                   probe>>

SetList(newList) ==
    /\ Event
    /\ list' = newList
    /\ rafQueue' = ScheduleCriticalUpdate(rafQueue)
    /\ NoUpdate
    /\ UNCHANGED <<opts, heights, pendingHeightUpdates, cells, domHeight, isIdle,
                   lastUpdateReason, viewport, viewTop, throttleState,
                   scrollEndPending, probe>>

\* a queued frame callback runs _update
RunFrame ==
    /\ UNCHANGED events
    /\ rafQueue > 0
    /\ rafQueue' = rafQueue - 1
    /\ Apply(Update(viewport, heights, lastUpdateReason), runs)
    /\ UNCHANGED <<opts, list, pendingHeightUpdates, cells, domHeight, isIdle, viewport,
                   viewTop, throttleState, scrollEndPending, probe>>

\* measureElement(node, itemId) with a valid node whose bounding height is h
MeasureElement(node, itemId, h) ==
    /\ Event
    /\ cells' = MapSet(cells, node, itemId)
    /\ domHeight' = MapSet(domHeight, node, h)
    /\ NoUpdate
    /\ UNCHANGED <<opts, list, heights, pendingHeightUpdates, isIdle, lastUpdateReason,
                   viewport, viewTop, rafQueue, throttleState, scrollEndPending, probe>>

\* the node that is null
NullNode == 0

\* measureElement(node, itemId): an invalid node is reported with
\* console.error, nothing is registered and undefined is returned
MeasureElementCall(node, itemId, h) ==
    IF node = NullNode
    THEN /\ Event
         /\ NoUpdate
         /\ UNCHANGED <<opts, list, heights, pendingHeightUpdates, cells, domHeight,
                        isIdle, lastUpdateReason, viewport, viewTop, rafQueue,
                        throttleState, scrollEndPending, probe>>
    ELSE MeasureElement(node, itemId, h)

\* variant: the release handle also drops the staged height of the node's item
ReleaseForgettingStaged(node) ==
    /\ Event
    /\ IF Has(cells, node)
       THEN cells' = MapDelete(cells, node) /\ domHeight' = MapDelete(domHeight, node)
       ELSE UNCHANGED <<cells, domHeight>>
    /\ pendingHeightUpdates' = EmptyMap
    /\ NoUpdate
    /\ UNCHANGED <<opts, list, heights, isIdle, lastUpdateReason,
                   viewport, viewTop, rafQueue, throttleState, scrollEndPending>>

\* the release handle measureElement returned for node
Release(node) ==
    /\ Event
    /\ IF Has(cells, node)
       THEN cells' = MapDelete(cells, node) /\ domHeight' = MapDelete(domHeight, node)
       ELSE UNCHANGED <<cells, domHeight>>
    /\ NoUpdate
    /\ UNCHANGED <<opts, list, heights, pendingHeightUpdates, isIdle, lastUpdateReason,
                   viewport, viewTop, rafQueue, throttleState, scrollEndPending>>

\* the layout gives a registered node another bounding height
DomResize(node, h) ==
    /\ Event
    /\ Has(cells, node)
    /\ domHeight[node] # h
    /\ domHeight' = [domHeight EXCEPT ![node] = h]
    /\ NoUpdate
    /\ UNCHANGED <<opts, list, heights, pendingHeightUpdates, cells, isIdle,
                   lastUpdateReason, viewport, viewTop, rafQueue, throttleState,
                   scrollEndPending, probe>>

\* _updateItemHeight: stage the height, and flush when every rendered item has
\* a committed or staged height or more than 50 heights are staged
\* variant: only committed heights count for the rendered items
ShouldFlushCommittedOnly(staged, h, rendered) ==
    \/ \A i \in 1..Len(rendered) : Has(h, rendered[i].itemId)
    \/ Cardinality(DOMAIN staged) > PENDING_FLUSH_THRESHOLD

\* variant: the threshold is reached by the 50th staged height
ShouldFlushAtThreshold(staged, h, rendered) ==
    \/ \A i \in 1..Len(rendered) :
           Has(h, rendered[i].itemId) \/ Has(staged, rendered[i].itemId)
    \/ Cardinality(DOMAIN staged) >= PENDING_FLUSH_THRESHOLD

\* variant: only the threshold flushes the pending buffer
ShouldFlushAboveThreshold(staged, h, rendered) ==
    Cardinality(DOMAIN staged) > PENDING_FLUSH_THRESHOLD

\* the flush condition of _updateItemHeight
ShouldFlush(staged, h, rendered) ==
    LET allRenderedHaveHeights ==
            \A i \in 1..Len(rendered) :
                Has(h, rendered[i].itemId) \/ Has(staged, rendered[i].itemId)
    IN  allRenderedHaveHeights \/ Cardinality(DOMAIN staged) > PENDING_FLUSH_THRESHOLD

\* variant: the flush commits the staged heights and runs no cycle
UpdateItemHeightWithoutUpdate(itemId, height) ==
    LET staged == MapSet(pendingHeightUpdates, itemId, height)
        flushed == [id \in DOMAIN heights \cup DOMAIN staged |->
                       IF Has(staged, id) THEN staged[id] ELSE heights[id]]
    IN  IF ShouldFlush(staged, heights, renderedItems)
        THEN /\ pendingHeightUpdates' = EmptyMap
             /\ heights' = flushed
             /\ lastUpdateReason' = HEIGHT_CHANGE
             /\ NoUpdate
        ELSE /\ pendingHeightUpdates' = staged
             /\ NoUpdate
             /\ UNCHANGED <<heights, lastUpdateReason>>

UpdateItemHeight(itemId, height) ==
    LET staged == MapSet(pendingHeightUpdates, itemId, height)
        flushed == [id \in DOMAIN heights \cup DOMAIN staged |->
                       IF Has(staged, id) THEN staged[id] ELSE heights[id]]
    IN  IF ShouldFlush(staged, heights, renderedItems)
        THEN /\ pendingHeightUpdates' = EmptyMap
             /\ Apply(Update(viewport, flushed, HEIGHT_CHANGE), 0)
        ELSE /\ pendingHeightUpdates' = staged
             /\ NoUpdate
             /\ UNCHANGED <<heights, lastUpdateReason>>

\* _handleHeightChanged
HandleHeightChanged(itemId, height) ==
    IF ~Has(heights, itemId) \/ ~StrictEquals(heights[itemId], height)
    THEN UpdateItemHeight(itemId, height)
    ELSE /\ NoUpdate
         /\ UNCHANGED <<heights, pendingHeightUpdates, lastUpdateReason>>

\* _measureElement(node, entry) for a ResizeObserver entry whose
\* contentRect.height is newHeightRaw
MeasureElementEntry(node, newHeightRaw) ==
    /\ IF \/ ~Has(cells, node)
          \/ ~IsTypeNumber(newHeightRaw)
          \/ LessThan(newHeightRaw, 0)
       THEN /\ NoUpdate
            /\ UNCHANGED <<heights, pendingHeightUpdates, lastUpdateReason>>
       ELSE LET itemId == cells[node]
                newHeight == MathFloor(newHeightRaw)
                heightDidChange ==
                    \/ ~Has(heights, itemId)
                    \/ ~StrictEquals(newHeight, MathFloor(heights[itemId]))
            IN  IF heightDidChange
                THEN HandleHeightChanged(itemId, newHeight)
                ELSE /\ NoUpdate
                     /\ UNCHANGED <<heights, pendingHeightUpdates, lastUpdateReason>>
    /\ UNCHANGED <<opts, list, cells, domHeight, isIdle, viewport, viewTop, rafQueue,
                   throttleState, scrollEndPending>>

\* the ResizeObserver delivers an entry for node
MeasureEntry(node, newHeightRaw) ==
    /\ Event
    /\ MeasureElementEntry(node, newHeightRaw)
    /\ UNCHANGED probe

\* lodash.throttle(fn, 100, {trailing: true}) around _scheduleCriticalUpdate:
\* the first call of a window runs at once, later calls leave one trailing call
ScheduleCriticalUpdateThrottled ==
    IF throttleState = "idle"
    THEN /\ rafQueue' = ScheduleCriticalUpdate(rafQueue)
         /\ throttleState' = "wait"
    ELSE /\ throttleState' = "pending"
         /\ UNCHANGED rafQueue

\* the throttle's timer expires: the trailing call, if any, runs
ThrottleTimer ==
    /\ UNCHANGED events
    /\ throttleState # "idle"
    /\ IF throttleState = "pending"
       THEN /\ rafQueue' = ScheduleCriticalUpdate(rafQueue)
            /\ throttleState' = "wait"
       ELSE /\ throttleState' = "idle"
            /\ UNCHANGED rafQueue
    /\ NoUpdate
    /\ UNCHANGED <<opts, list, heights, pendingHeightUpdates, cells, domHeight, isIdle,
                   lastUpdateReason, viewport, viewTop, scrollEndPending, probe>>

\* variant: an accepted scroll does not restart the scroll-end debounce
ScrollWithoutScrollEnd(y) ==
    /\ Event
    /\ viewTop' = y
    /\ IF viewport # "mounted" \/ isInitialAnchoring \/ y < 0
       THEN UNCHANGED <<isIdle, rafQueue, throttleState>>
       ELSE /\ isIdle' = FALSE
            /\ ScheduleCriticalUpdateThrottled
    /\ NoUpdate
    /\ UNCHANGED <<opts, list, heights, pendingHeightUpdates, cells, domHeight,
                   lastUpdateReason, viewport, scrollEndPending, probe>>

\* variant: a scroll event is accepted whenever the viewport is mounted
ScrollAlwaysAccepted(y) ==
    /\ Event
    /\ viewTop' = y
    /\ IF viewport # "mounted"
       THEN UNCHANGED <<isIdle, scrollEndPending, rafQueue, throttleState>>
       ELSE /\ isIdle' = FALSE
            /\ scrollEndPending' = TRUE
            /\ ScheduleCriticalUpdateThrottled
    /\ NoUpdate
    /\ UNCHANGED <<opts, list, heights, pendingHeightUpdates, cells, domHeight,
                   lastUpdateReason, viewport, probe>>

\* the viewport scrolls to y; _handleScroll runs if the listener is attached
Scroll(y) ==
    /\ Event
    /\ viewTop' = y
    /\ IF viewport # "mounted" \/ isInitialAnchoring \/ y < 0
       THEN UNCHANGED <<isIdle, scrollEndPending, rafQueue, throttleState>>
       ELSE /\ isIdle' = FALSE
            /\ scrollEndPending' = TRUE
            /\ ScheduleCriticalUpdateThrottled
    /\ NoUpdate
    /\ UNCHANGED <<opts, list, heights, pendingHeightUpdates, cells, domHeight,
                   lastUpdateReason, viewport, probe>>

\* the viewport rectangle changes (its height stays the same): the rect change
\* listener is _scheduleCriticalUpdateThrottled
ViewportRectChange ==
    /\ Event
    /\ viewport = "mounted"
    /\ ScheduleCriticalUpdateThrottled
    /\ NoUpdate
    /\ UNCHANGED <<opts, list, heights, pendingHeightUpdates, cells, domHeight, isIdle,
                   lastUpdateReason, viewport, viewTop, scrollEndPending, probe>>

\* _updateScrollEnd: the debounce fires 200ms after the last accepted scroll
UpdateScrollEnd ==
    /\ UNCHANGED events
    /\ scrollEndPending
    /\ scrollEndPending' = FALSE
    /\ isIdle' = TRUE
    /\ rafQueue' = ScheduleCriticalUpdate(rafQueue)
    /\ NoUpdate
    /\ UNCHANGED <<opts, list, heights, pendingHeightUpdates, cells, domHeight,
                   lastUpdateReason, viewport, viewTop, throttleState, probe>>

(***************************************************************************)
(* The engine: the state after construction and its steps                  *)
(***************************************************************************)
NoProbe == [prevSlice |-> Slice(0, 0), nextSlice |-> Slice(0, 0),
            usePreferredBuffer |-> FALSE, reason |-> "none", done |-> FALSE,
            adjusted |-> Slice(0, 0), sliceChanged |-> FALSE,
            slice |-> Slice(0, 0), onChange |-> FALSE]

\* constructor: _setupOptions takes the list of the options
Init ==
    /\ opts = EngineOptions
    /\ list \in Lists
    /\ renderedItems = <<>>
    /\ slice = Slice(0, 0)
    /\ listHeightWithHeadRoom = 0
    /\ heights = EmptyMap
    /\ pendingHeightUpdates = EmptyMap
    /\ cells = EmptyMap
    /\ domHeight = EmptyMap
    /\ isIdle = TRUE
    /\ isInitialAnchoring = TRUE
    /\ lastUpdateReason = NoReason
    /\ viewport = "none"
    /\ viewTop = 0
    /\ rafQueue = 0
    /\ throttleState = "idle"
    /\ scrollEndPending = FALSE
    /\ cycle = NoCycle
    /\ runs = 0
    /\ events = 0
    /\ probe = NoProbe
    /\ zones = InitialZoneStates

RenderedIds == {renderedItems[i].itemId : i \in 1..Len(renderedItems)}

\* the rendering layer registers the element of a rendered item
RegisterRendered ==
    \E id \in RenderedIds, h \in DomHeights :
        /\ ~Has(cells, id)
        /\ MeasureElement(id, id, h)

Next ==
    \/ Mount
    \/ \E l \in Lists : SetList(l)
    \/ RunFrame
    \/ RegisterRendered
    \/ \E n \in Nodes : Has(cells, n) /\ Release(n) /\ UNCHANGED probe
    \/ \E n \in Nodes, h \in DomHeights : DomResize(n, h)
    \/ \E n \in Nodes, raw \in ReportedHeights : Has(cells, n) /\ MeasureEntry(n, raw)
    \/ \E y \in ScrollPositions : y # viewTop /\ Scroll(y)
    \/ ViewportRectChange
    \/ ThrottleTimer
    \/ UpdateScrollEnd

Spec == Init /\ [][Next]_vars

(***************************************************************************)
(* _adjustSlice and the slice-change test of _updateRenderedItems, applied *)
(* once to a previous slice, a candidate slice, a buffer choice and an     *)
(* update reason.                                                          *)
(***************************************************************************)
MaxIndex == 4

SlicePoints ==
    (0..MaxIndex) \cup {10, 12, 18, 20}
        \cup {10 + MAX_ITEMS_TO_RENDER_AT_ONCE, 11 + MAX_ITEMS_TO_RENDER_AT_ONCE}

Slices == {sl \in [start : SlicePoints, end : SlicePoints] : sl.start <= sl.end}

InitAdjust ==
    /\ Init
    /\ list = <<>>

\* the host and the scroll history leave the engine with a previous slice, a
\* candidate slice, a buffer choice and an update reason
ChooseSlices ==
    /\ probe = NoProbe
    /\ \E prev \in Slices, cand \in Slices, pref \in BOOLEAN,
          reason \in {HEIGHT_CHANGE, NoReason} :
           probe' = [NoProbe EXCEPT !.prevSlice = prev, !.nextSlice = cand,
                                    !.usePreferredBuffer = pref, !.reason = reason,
                                    !.slice = prev]
    /\ UNCHANGED <<opts, list, renderedItems, slice, listHeightWithHeadRoom, heights,
                   pendingHeightUpdates, cells, domHeight, isIdle, isInitialAnchoring,
                   lastUpdateReason, viewport, viewTop, rafQueue, throttleState,
                   scrollEndPending, cycle, runs, events, zones>>

\* _getRenderCandidates adjusts the slice; _updateRenderedItems compares it with
\* the persisted one and persists it when onChange is to fire
ApplyAdjustSlice ==
    /\ probe # NoProbe
    /\ ~probe.done
    /\ LET newSlice == AdjustSlice(probe.prevSlice, probe.nextSlice,
                                   probe.usePreferredBuffer)
           sliceChanged == probe.prevSlice # newSlice
           trigger == ShouldTriggerOnChange(sliceChanged, probe.reason)
       IN  probe' = [probe EXCEPT !.done = TRUE,
                                  !.adjusted = newSlice,
                                  !.sliceChanged = sliceChanged,
                                  !.slice = IF trigger THEN newSlice ELSE probe.prevSlice,
                                  !.onChange = trigger]
    /\ UNCHANGED <<opts, list, renderedItems, slice, listHeightWithHeadRoom, heights,
                   pendingHeightUpdates, cells, domHeight, isIdle, isInitialAnchoring,
                   lastUpdateReason, viewport, viewTop, rafQueue, throttleState,
                   scrollEndPending, cycle, runs, events, zones>>

NextAdjust == ChooseSlices \/ ApplyAdjustSlice

SpecAdjust == InitAdjust /\ [][NextAdjust]_vars

(***************************************************************************)
(* The first cycle of the example: unmeasured items of assumed height      *)
(* 100px in a viewport 800px high at the top of the list, minimum ratio    *)
(* 0.5, preferred ratio 2.5.  The list is as long as ExampleLength allows. *)
(***************************************************************************)
ExampleLength == 20

ExampleOptions ==
    [assumedItemHeight |-> Px(100), viewportHeight |-> Px(800),
     minimumOffscreenToViewportRatio |-> Ratio(1, 2),
     preferredOffscreenToViewportRatio |-> Ratio(5, 2),
     rootElement |-> TRUE]

ExampleLists ==
    {[i \in 1..n |-> [id |-> i, canBeAnchor |-> TRUE]] : n \in 16..ExampleLength}

InitFirst ==
    /\ opts = ExampleOptions
    /\ list \in ExampleLists
    /\ renderedItems = <<>>
    /\ slice = Slice(0, 0)
    /\ listHeightWithHeadRoom = 0
    /\ heights = EmptyMap
    /\ pendingHeightUpdates = EmptyMap
    /\ cells = EmptyMap
    /\ domHeight = EmptyMap
    /\ isIdle = TRUE
    /\ isInitialAnchoring = TRUE
    /\ lastUpdateReason = NoReason
    /\ viewport = "none"
    /\ viewTop = 0
    /\ rafQueue = 0
    /\ throttleState = "idle"
    /\ scrollEndPending = FALSE
    /\ cycle = NoCycle
    /\ runs = 0
    /\ events = 0
    /\ probe = NoProbe
    /\ zones = InitialZoneStates

ExampleHeights == {Px(100), Px(120)}

\* the host renders a cell for a rendered item and registers it
RegisterExampleCell ==
    \E id \in RenderedIds, h \in ExampleHeights :
        /\ ~Has(cells, id)
        /\ MeasureElement(id, id, h)

\* the ResizeObserver reports a registered cell
ObserveExampleCell ==
    \E n \in DOMAIN cells : MeasureEntry(n, domHeight[n])

NextFirst == Mount \/ RegisterExampleCell \/ ObserveExampleCell

SpecFirst == InitFirst /\ [][NextFirst]_vars

(***************************************************************************)
(* Batched measurement: a viewport high enough to render every item of the *)
(* list, cells registered for the rendered items (all of them, or all but  *)
(* one), and the ResizeObserver delivering their entries in the order of   *)
(* observation.                                                            *)
(***************************************************************************)
BatchLength == 53

BatchOptions ==
    [assumedItemHeight |-> Px(1), viewportHeight |-> Px(40),
     minimumOffscreenToViewportRatio |-> Ratio(1, 2),
     preferredOffscreenToViewportRatio |-> Ratio(2, 1),
     rootElement |-> TRUE]

BatchLists ==
    {[i \in 1..n |-> [id |-> i, canBeAnchor |-> TRUE]] :
        n \in {2, 3} \cup ((PENDING_FLUSH_THRESHOLD + 2)..BatchLength)}

InitBatch ==
    /\ opts = BatchOptions
    /\ list \in BatchLists
    /\ renderedItems = <<>>
    /\ slice = Slice(0, 0)
    /\ listHeightWithHeadRoom = 0
    /\ heights = EmptyMap
    /\ pendingHeightUpdates = EmptyMap
    /\ cells = EmptyMap
    /\ domHeight = EmptyMap
    /\ isIdle = TRUE
    /\ isInitialAnchoring = TRUE
    /\ lastUpdateReason = NoReason
    /\ viewport = "none"
    /\ viewTop = 0
    /\ rafQueue = 0
    /\ throttleState = "idle"
    /\ scrollEndPending = FALSE
    /\ cycle = NoCycle
    /\ runs = 0
    /\ events = 0
    /\ probe = NoProbe
    /\ zones = InitialZoneStates

\* the host calls measureElement for the cell of every rendered item, or of
\* every rendered item but one whose cell is not in the document yet
RegisterCells ==
    /\ cells = EmptyMap
    /\ renderedItems # <<>>
    /\ \E omitted \in RenderedIds \cup {0}, h \in DomHeights :
           /\ cells' = [n \in RenderedIds \ {omitted} |-> n]
           /\ domHeight' = [n \in RenderedIds \ {omitted} |-> h]
    /\ NoUpdate
    /\ UNCHANGED <<opts, list, heights, pendingHeightUpdates, isIdle, lastUpdateReason,
                   viewport, viewTop, rafQueue, throttleState, scrollEndPending, events,
                   probe>>

\* the registered cells whose entry the observer has not delivered yet
Unobserved ==
    {n \in DOMAIN cells : ~Has(heights, cells[n]) /\ ~Has(pendingHeightUpdates, cells[n])}

\* the observer delivers the entry of the next observed cell
ObserveNextCell ==
    /\ Unobserved # {}
    /\ LET n == CHOOSE m \in Unobserved : \A k \in Unobserved : m <= k
       IN  MeasureElementEntry(n, domHeight[n])
    /\ UNCHANGED <<events, probe>>

NextBatch == Mount \/ RegisterCells \/ ObserveNextCell

SpecBatch == InitBatch /\ [][NextBatch]_vars

(***************************************************************************)
(* One zone of the proximity manager, applied once to a stored zone state  *)
(* and a positioning snapshot.                                             *)
(***************************************************************************)
ZoneLengths == {0, 100, 150}

ZoneStates ==
    {NoZoneState} \cup [proximity : {INSIDE, OUTSIDE}, listLength : ZoneLengths]

ZoneViewportRects == {Rectangle(top, Px(800)) : top \in {0, Px(5), Px(6), Px(200), Px(201)}}

ZoneListRects ==
    {Rectangle(top, height) : top \in {0, 0 - Px(100)},
                              height \in {0, Px(1000), Px(2200), Px(2400), Px(10000)}}

InitZone ==
    /\ Init
    /\ list = <<>>

\* the engine reaches a cycle with some zone state stored and some snapshot
ChooseZone ==
    /\ probe = NoProbe
    /\ \E z \in 1..Len(ZoneDefinitions), state \in ZoneStates,
          viewportRect \in ZoneViewportRects, listRect \in ZoneListRects,
          listLength \in ZoneLengths :
           probe' = [zone |-> z, state |-> state, done |-> FALSE,
                     positioning |-> Positioning(viewportRect, listRect, listLength, <<>>),
                     newState |-> state, triggerCause |-> NoTrigger]
    /\ UNCHANGED <<opts, list, renderedItems, slice, listHeightWithHeadRoom, heights,
                   pendingHeightUpdates, cells, domHeight, isIdle, isInitialAnchoring,
                   lastUpdateReason, viewport, viewTop, rafQueue, throttleState,
                   scrollEndPending, cycle, runs, events, zones>>

\* handlePositioningUpdate evaluates the zone
ApplyZone ==
    /\ probe # NoProbe
    /\ ~probe.done
    /\ LET out == HandleZone(ZoneDefinitions[probe.zone], probe.state, probe.positioning)
       IN  probe' = [probe EXCEPT !.done = TRUE, !.newState = out.state,
                                  !.triggerCause = out.triggerCause]
    /\ UNCHANGED <<opts, list, renderedItems, slice, listHeightWithHeadRoom, heights,
                   pendingHeightUpdates, cells, domHeight, isIdle, isInitialAnchoring,
                   lastUpdateReason, viewport, viewTop, rafQueue, throttleState,
                   scrollEndPending, cycle, runs, events, zones>>

NextZone == ChooseZone \/ ApplyZone

SpecZone == InitZone /\ [][NextZone]_vars

(***************************************************************************)
(* _getHeightForItemId, applied to item 1 with a ledger that holds no      *)
(* height or one height for it (a whole or a half pixel count, NaN or      *)
(* Infinity) and with an assumed height of whole or half pixels.           *)
(***************************************************************************)
MaxHeight == 9

CommittedHeights == (0..MaxHeight) \cup {NaN, Infinity}

AssumedHeights == 1..MaxHeight

InitHeight ==
    /\ Init
    /\ list = <<ListItem(1)>>

ChooseHeight ==
    /\ probe = NoProbe
    /\ heights' \in {EmptyMap} \cup {MapSet(EmptyMap, 1, v) : v \in CommittedHeights}
    /\ \E a \in AssumedHeights : opts' = [EngineOptions EXCEPT !.assumedItemHeight = a]
    /\ probe' = [done |-> FALSE, height |-> 0]
    /\ UNCHANGED <<list, renderedItems, slice, listHeightWithHeadRoom,
                   pendingHeightUpdates, cells, domHeight, isIdle, isInitialAnchoring,
                   lastUpdateReason, viewport, viewTop, rafQueue, throttleState,
                   scrollEndPending, cycle, runs, events, zones>>

ApplyGetHeight ==
    /\ probe # NoProbe
    /\ ~probe.done
    /\ probe' = [done |-> TRUE, height |-> GetHeight(heights, opts, list[1])]
    /\ UNCHANGED <<opts, list, renderedItems, slice, listHeightWithHeadRoom, heights,
                   pendingHeightUpdates, cells, domHeight, isIdle, isInitialAnchoring,
                   lastUpdateReason, viewport, viewTop, rafQueue, throttleState,
                   scrollEndPending, cycle, runs, events, zones>>

NextHeight == ChooseHeight \/ ApplyGetHeight

SpecHeight == InitHeight /\ [][NextHeight]_vars

(***************************************************************************)
(* The measurement path with every kind of contentRect.height an observer  *)
(* entry may carry: a finite height, a negative height, NaN, +Infinity,    *)
(* -Infinity and a missing value (entry.contentRect?.height is undefined). *)
(***************************************************************************)
InvalidReports == {0 - Px(1), NaN, Infinity, NegInfinity, Undefined}

ContentRectHeights == ReportedHeights \cup {Px(2)} \cup InvalidReports

NextReport ==
    \/ Mount
    \/ RegisterRendered
    \/ \E n \in Nodes, raw \in ContentRectHeights : Has(cells, n) /\ MeasureEntry(n, raw)

SpecReport == Init /\ [][NextReport]_vars


(***************************************************************************)
(* The engine with the teardown function of mount(): the callbacks that    *)
(* were scheduled before the teardown still fire after it.  After the      *)
(* teardown the application calls neither setList nor measureElement; the  *)
(* viewport may still scroll and resize.  The lists are the prefixes of    *)
(* the items 1, 2, 3.                                                      *)
(***************************************************************************)
TeardownLists == {l \in Lists : \A i \in 1..Len(l) : l[i].id = i}

InitTeardown == Init /\ list \in TeardownLists

NextTeardown ==
    \/ Mount
    \/ Teardown
    \/ \E l \in TeardownLists : viewport # "detached" /\ SetList(l)
    \/ RunFrame
    \/ viewport # "detached" /\ RegisterRendered
    \/ \E n \in Nodes, raw \in ReportedHeights : Has(cells, n) /\ MeasureEntry(n, raw)
    \/ \E y \in ScrollPositions : y # viewTop /\ Scroll(y)
    \/ ViewportRectChange
    \/ ThrottleTimer
    \/ UpdateScrollEnd

SpecTeardown == InitTeardown /\ [][NextTeardown]_vars

(***************************************************************************)
(* Measurements of one element over time: the observer reports heights of  *)
(* 1px, 1.5px and 2px for the registered cells, any number of times.       *)
(* probe.reported keeps, for every item, the floored height of the most    *)
(* recent valid report.                                                    *)
(***************************************************************************)
ReportValues == {Px(1), Px(1) + 1, Px(2)}

InitSupersede ==
    /\ opts = EngineOptions
    /\ list \in TeardownLists
    /\ renderedItems = <<>>
    /\ slice = Slice(0, 0)
    /\ listHeightWithHeadRoom = 0
    /\ heights = EmptyMap
    /\ pendingHeightUpdates = EmptyMap
    /\ cells = EmptyMap
    /\ domHeight = EmptyMap
    /\ isIdle = TRUE
    /\ isInitialAnchoring = TRUE
    /\ lastUpdateReason = NoReason
    /\ viewport = "none"
    /\ viewTop = 0
    /\ rafQueue = 0
    /\ throttleState = "idle"
    /\ scrollEndPending = FALSE
    /\ cycle = NoCycle
    /\ runs = 0
    /\ events = 0
    /\ probe = [reported |-> EmptyMap]
    /\ zones = InitialZoneStates

ReportEntry(node, raw) ==
    /\ Has(cells, node)
    /\ MeasureElementEntry(node, raw)
    /\ probe' = [reported |-> MapSet(probe.reported, cells[node], MathFloor(raw))]
    /\ UNCHANGED events

NextSupersede ==
    \/ Mount
    \/ \E l \in TeardownLists : SetList(l)
    \/ RunFrame
    \/ RegisterRendered
    \/ \E n \in Nodes : Has(cells, n) /\ Release(n) /\ UNCHANGED probe
    \/ \E n \in Nodes, raw \in ReportValues : ReportEntry(n, raw)

SpecSupersede == InitSupersede /\ [][NextSupersede]_vars

(***************************************************************************)
(* Scrolling: the engine is mounted, its items are measured and the        *)
(* viewport scrolls.  The debounce of _updateScrollEnd is a timer: once it *)
(* is armed it fires unless another accepted scroll restarts it, hence the *)
(* weak fairness of UpdateScrollEnd.                                       *)
(***************************************************************************)
NextScroll ==
    \/ Mount
    \/ RegisterRendered
    \/ \E n \in Nodes, raw \in ReportedHeights : Has(cells, n) /\ MeasureEntry(n, raw)
    \/ \E y \in ScrollPositions : y # viewTop /\ Scroll(y)
    \/ RunFrame
    \/ ThrottleTimer
    \/ UpdateScrollEnd

SpecScroll == InitTeardown /\ [][NextScroll]_vars /\ WF_vars(UpdateScrollEnd)

(***************************************************************************)
(* Unresolved geometry: the engine is constructed with or without a root   *)
(* element, and lists are replaced, elements registered and measurements   *)
(* delivered before as well as after mount().                              *)
(***************************************************************************)
GeometryOptions == {EngineOptions, [EngineOptions EXCEPT !.rootElement = FALSE]}

InitGeometry ==
    /\ opts \in GeometryOptions
    /\ list \in TeardownLists
    /\ renderedItems = <<>>
    /\ slice = Slice(0, 0)
    /\ listHeightWithHeadRoom = 0
    /\ heights = EmptyMap
    /\ pendingHeightUpdates = EmptyMap
    /\ cells = EmptyMap
    /\ domHeight = EmptyMap
    /\ isIdle = TRUE
    /\ isInitialAnchoring = TRUE
    /\ lastUpdateReason = NoReason
    /\ viewport = "none"
    /\ viewTop = 0
    /\ rafQueue = 0
    /\ throttleState = "idle"
    /\ scrollEndPending = FALSE
    /\ cycle = NoCycle
    /\ runs = 0
    /\ events = 0
    /\ probe = NoProbe
    /\ zones = InitialZoneStates

NextGeometry ==
    \/ Mount
    \/ \E l \in TeardownLists : SetList(l)
    \/ RunFrame
    \/ \E n \in Nodes, h \in DomHeights : ~Has(cells, n) /\ MeasureElementCall(n, n, h)
    \/ \E n \in Nodes, raw \in ReportedHeights : Has(cells, n) /\ MeasureEntry(n, raw)

SpecGeometry == InitGeometry /\ [][NextGeometry]_vars

(***************************************************************************)
(* Registration and release: measureElement with any node, the null node   *)
(* included, for the item the node displays, rendered or not; the release  *)
(* handle of a node called any number of times; an observer entry for any  *)
(* node, also one released before the deferred callback ran.  probe        *)
(* records the last call of a release handle.                              *)
(***************************************************************************)
ReleaseCall(node) ==
    /\ Release(node)
    /\ probe' = [op |-> "release", node |-> node, wasRegistered |-> Has(cells, node)]

NextRegister ==
    \/ Mount
    \/ \E n \in Nodes \cup {NullNode}, h \in DomHeights : MeasureElementCall(n, n, h)
    \/ \E n \in Nodes : ReleaseCall(n)
    \/ \E n \in Nodes, raw \in ReportedHeights : MeasureEntry(n, raw)

SpecRegister == Init /\ [][NextRegister]_vars

(***************************************************************************)
(* Initial anchoring: the engine is mounted on a list that is replaced a   *)
(* bounded number of times.  The rendering layer registers the element of  *)
(* every rendered item and releases the elements of the items that are no  *)
(* longer rendered; the observer delivers entries with valid heights for   *)
(* the registered elements.  The animation frame, the rendering layer and  *)
(* the observer do not stall, hence the weak fairness of their steps.  The *)
(* weak fairness of RunFrame and of ReportCell is written out as "the step *)
(* is infinitely often disabled or infinitely often taken": RunFrame is    *)
(* enabled exactly when a frame callback is queued, and ReportCell(n) is   *)
(* required only while n is Unreported, when it is enabled.                *)
(***************************************************************************)
AnchoringOptions ==
    {EngineOptions, [EngineOptions EXCEPT !.assumedItemHeight = Px(2)]}

\* the list is replaced at most MaxListChanges times and then stops changing
MaxListChanges == 1

InitAnchoring ==
    /\ opts \in AnchoringOptions
    /\ list \in TeardownLists
    /\ renderedItems = <<>>
    /\ slice = Slice(0, 0)
    /\ listHeightWithHeadRoom = 0
    /\ heights = EmptyMap
    /\ pendingHeightUpdates = EmptyMap
    /\ cells = EmptyMap
    /\ domHeight = EmptyMap
    /\ isIdle = TRUE
    /\ isInitialAnchoring = TRUE
    /\ lastUpdateReason = NoReason
    /\ viewport = "none"
    /\ viewTop = 0
    /\ rafQueue = 0
    /\ throttleState = "idle"
    /\ scrollEndPending = FALSE
    /\ cycle = NoCycle
    /\ runs = 0
    /\ events = 0
    /\ probe = NoProbe
    /\ zones = InitialZoneStates

\* the rendering layer mounts the element of rendered item id, whose bounding
\* height is h, and calls measureElement(node, id)
RenderCell(id, h) ==
    /\ id \in RenderedIds
    /\ ~Has(cells, id)
    /\ cells' = MapSet(cells, id, id)
    /\ domHeight' = MapSet(domHeight, id, h)
    /\ NoUpdate
    /\ UNCHANGED <<opts, list, heights, pendingHeightUpdates, isIdle, lastUpdateReason,
                   viewport, viewTop, rafQueue, throttleState, scrollEndPending, probe,
                   events>>

\* the rendering layer unmounts the element of an item that is no longer
\* rendered and calls its release handle
UnrenderCell(node) ==
    /\ Has(cells, node)
    /\ cells[node] \notin RenderedIds
    /\ cells' = MapDelete(cells, node)
    /\ domHeight' = MapDelete(domHeight, node)
    /\ NoUpdate
    /\ UNCHANGED <<opts, list, heights, pendingHeightUpdates, isIdle, lastUpdateReason,
                   viewport, viewTop, rafQueue, throttleState, scrollEndPending, probe,
                   events>>

\* the observer delivers an entry with a valid height, 0 or 1.5px, for a
\* registered node
ReportCell(node) ==
    \E raw \in {0, Px(1) + 1} :
        /\ Has(cells, node)
        /\ MeasureElementEntry(node, raw)
        /\ UNCHANGED <<events, probe>>

\* node is registered and its item has neither a committed nor a staged height:
\* the entry the observer delivers for it changes the engine's state
Unreported(node) ==
    /\ Has(cells, node)
    /\ ~Has(heights, cells[node])
    /\ ~Has(pendingHeightUpdates, cells[node])

NextAnchoring ==
    \/ Mount
    \/ \E l \in TeardownLists : events < MaxListChanges /\ SetList(l)
    \/ RunFrame
    \/ \E id \in Ids, h \in DomHeights : RenderCell(id, h)
    \/ \E n \in Nodes : UnrenderCell(n)
    \/ \E n \in Nodes : ReportCell(n)

SpecAnchoring ==
    /\ InitAnchoring
    /\ [][NextAnchoring]_vars
    /\ ([]<>(rafQueue = 0) \/ []<><<RunFrame>>_vars)
    /\ WF_vars(\E id \in Ids, h \in DomHeights : RenderCell(id, h))
    /\ \A n \in Nodes : ([]<>~Unreported(n) \/ []<><<ReportCell(n)>>_vars)
(***************************************************************************)
(* Release handles: measureElement is called for nodes that may already be *)
(* registered, for the same or another item, and every handle it returned  *)
(* may be called at any later time.  probe records the handles issued      *)
(* (each with the number of the call that issued it), for each node the    *)
(* call of its latest registration, and the handle called last.            *)
(***************************************************************************)
InitHandle ==
    /\ opts = EngineOptions
    /\ list \in TeardownLists
    /\ renderedItems = <<>>
    /\ slice = Slice(0, 0)
    /\ listHeightWithHeadRoom = 0
    /\ heights = EmptyMap
    /\ pendingHeightUpdates = EmptyMap
    /\ cells = EmptyMap
    /\ domHeight = EmptyMap
    /\ isIdle = TRUE
    /\ isInitialAnchoring = TRUE
    /\ lastUpdateReason = NoReason
    /\ viewport = "none"
    /\ viewTop = 0
    /\ rafQueue = 0
    /\ throttleState = "idle"
    /\ scrollEndPending = FALSE
    /\ cycle = NoCycle
    /\ runs = 0
    /\ events = 0
    /\ probe = [handles |-> {}, current |-> EmptyMap, calls |-> 0, called |-> <<>>]
    /\ zones = InitialZoneStates

\* the handle measureElement(node, itemId) returns; at is the number of the call
Handle(node, itemId, at) == [node |-> node, itemId |-> itemId, at |-> at]

\* measureElement(node, itemId) with a valid node: registers the node, also
\* when it is registered already, and returns a new handle
RegisterForHandle(node, itemId, h) ==
    /\ Event
    /\ cells' = MapSet(cells, node, itemId)
    /\ domHeight' = MapSet(domHeight, node, h)
    /\ probe' = [probe EXCEPT !.handles = @ \cup {Handle(node, itemId, events)},
                              !.current = MapSet(@, node, events),
                              !.called = <<>>]
    /\ NoUpdate
    /\ UNCHANGED <<opts, list, heights, pendingHeightUpdates, isIdle, lastUpdateReason,
                   viewport, viewTop, rafQueue, throttleState, scrollEndPending>>

\* a handle is called: it closes over its node only
CallHandle(hd) ==
    /\ hd \in probe.handles
    /\ Release(hd.node)
    /\ probe' = [probe EXCEPT !.calls = @ + 1, !.called = hd]

NextHandle ==
    \/ Mount
    \/ \E n \in {m \in Nodes : m <= 2}, id \in Ids : RegisterForHandle(n, id, Px(1))
    \/ \E hd \in probe.handles : CallHandle(hd)
    \/ \E n \in Nodes, raw \in ReportedHeights : Has(cells, n) /\ MeasureEntry(n, raw)

SpecHandle == InitHandle /\ [][NextHandle]_vars
(***************************************************************************)
(* The lifetime of one proximity manager: handlePositioningUpdate is       *)
(* called with one snapshot after another.  probe records, for each zone,  *)
(* the cause of its last callback, how often initial_position was          *)
(* delivered (2 stands for twice or more), the proximity of its first      *)
(* evaluation, whether a movement callback was delivered, and whether the  *)
(* zone evaluated OUTSIDE since its last movement callback.                *)
(***************************************************************************)
ZoneIndices == 1..Len(ZoneDefinitions)

\* the snapshots of the cycles: the viewport at the top, 6px and 201px below
\* it, over an empty list and lists 1000px and 2400px high
ManagerSnapshots ==
    {Positioning(Rectangle(top, Px(800)), Rectangle(0, height), listLength, <<>>) :
        top \in {0, Px(6), Px(201)}, height \in {0, Px(1000), Px(2400)},
        listLength \in {100, 150}}

InitManager ==
    /\ opts = EngineOptions
    /\ list = <<>>
    /\ renderedItems = <<>>
    /\ slice = Slice(0, 0)
    /\ listHeightWithHeadRoom = 0
    /\ heights = EmptyMap
    /\ pendingHeightUpdates = EmptyMap
    /\ cells = EmptyMap
    /\ domHeight = EmptyMap
    /\ isIdle = TRUE
    /\ isInitialAnchoring = TRUE
    /\ lastUpdateReason = NoReason
    /\ viewport = "none"
    /\ viewTop = 0
    /\ rafQueue = 0
    /\ throttleState = "idle"
    /\ scrollEndPending = FALSE
    /\ cycle = NoCycle
    /\ runs = 0
    /\ events = 0
    /\ probe = [started |-> FALSE,
                triggers |-> [z \in ZoneIndices |-> NoTrigger],
                initial |-> [z \in ZoneIndices |-> 0],
                first |-> [z \in ZoneIndices |-> NoProximity],
                moved |-> [z \in ZoneIndices |-> FALSE],
                outsideSince |-> [z \in ZoneIndices |-> FALSE]]
    /\ zones = InitialZoneStates

\* the engine hands the manager the snapshot of a cycle
HandleSnapshot(positioningData) ==
    /\ LET out == HandlePositioningUpdate(zones, positioningData)
       IN  /\ zones' = out.zones
           /\ probe' =
                  [started |-> TRUE,
                   triggers |-> out.triggers,
                   initial |-> [z \in ZoneIndices |->
                                   IF out.triggers[z] = INITIAL_POSITION
                                   THEN Min(probe.initial[z] + 1, 2)
                                   ELSE probe.initial[z]],
                   first |-> [z \in ZoneIndices |->
                                 IF probe.started THEN probe.first[z]
                                 ELSE out.zones[z].proximity],
                   moved |-> [z \in ZoneIndices |->
                                 probe.moved[z] \/ out.triggers[z] = MOVEMENT],
                   outsideSince |-> [z \in ZoneIndices |->
                                        IF out.triggers[z] = MOVEMENT THEN FALSE
                                        ELSE \/ probe.outsideSince[z]
                                             \/ out.zones[z].proximity = OUTSIDE]]
    /\ UNCHANGED <<opts, list, renderedItems, slice, listHeightWithHeadRoom, heights,
                   pendingHeightUpdates, cells, domHeight, isIdle, isInitialAnchoring,
                   lastUpdateReason, viewport, viewTop, rafQueue, throttleState,
                   scrollEndPending, cycle, runs, events>>

NextManager == \E positioningData \in ManagerSnapshots : HandleSnapshot(positioningData)

SpecManager == InitManager /\ [][NextManager]_vars

(***************************************************************************)
(* Properties of the engine.  cycle records the run of _update that led to *)
(* the current state and is cleared by every other step, so "Completed"    *)
(* holds exactly in the states a completed cycle leaves behind.            *)
(***************************************************************************)
Completed == cycle.status = "completed"
CycleBefore == cycle.before[1]
CycleAnchor == cycle.anchor[1]
Projection == cycle.allItemsWithPositions

IdsAndOffsets(items) ==
    [i \in 1..Len(items) |-> <<items[i].itemId, items[i].offset>>]

\* C1: after every completed update cycle the persisted slice satisfies
\* 0 <= slice.start <= slice.end <= list.length for the current list.
C1_SliceWithinList ==
    Completed => 0 <= slice.start /\ slice.start <= slice.end /\ slice.end <= Len(list)

\* C2: a second update cycle that follows a completed one with no external
\* change in between leaves the slice and the rendered items' ids and offsets
\* as the first one left them.
C2_Idempotent ==
    runs = 2 =>
        /\ slice = CycleBefore.slice
        /\ IdsAndOffsets(renderedItems) = IdsAndOffsets(CycleBefore.renderedItems)
\* the offset of item itemId in a sequence of projected items
OffsetsOf(items, itemId) ==
    {items[i].offset : i \in {j \in 1..Len(items) : items[j].itemId = itemId}}

\* C3: when a cycle picks its anchor by rule 1 (a rendered, measured item that
\* may be an anchor), that item's offset in the new projection is its offset
\* before the cycle.
C3_AnchorStable ==
    (Completed /\ CycleAnchor.rule = 1) =>
        /\ OffsetsOf(Projection, CycleAnchor.itemId) # {}
        /\ OffsetsOf(Projection, CycleAnchor.itemId)
               = OffsetsOf(CycleBefore.renderedItems, CycleAnchor.itemId)

C3_Witness ==
    /\ Completed
    /\ CycleAnchor.rule = 1
    /\ CycleAnchor.offset # 0
    /\ CycleBefore.list # list \/ CycleBefore.heights # heights
    /\ \E i \in 1..Len(Projection) :
           /\ Projection[i].itemId # CycleAnchor.itemId
           /\ OffsetsOf(CycleBefore.renderedItems, Projection[i].itemId)
                  \notin {{}, {Projection[i].offset}}

\* the rendered items a cycle starts from that may be its anchor: still in the
\* list, canBeAnchor there, and with a committed height when the cycle starts
IsCandidate(itemId) ==
    /\ \E k \in 1..Len(list) : list[k].id = itemId /\ list[k].canBeAnchor
    /\ itemId \in DOMAIN CycleBefore.heights
    /\ OffsetsOf(CycleBefore.renderedItems, itemId) # {}

CandidatePositions ==
    {j \in 1..Len(CycleBefore.renderedItems) :
        IsCandidate(CycleBefore.renderedItems[j].itemId)}

CandidateListPositions == {k \in 1..Len(list) : IsCandidate(list[k].id)}

Least(S) == CHOOSE x \in S : \A y \in S : x <= y

\* C4 as stated: the anchor is (1) the candidate that comes first in the order
\* of the list, at its projected offset, (2) else the first item of the list at
\* offset 0, (3) none when the list is empty.
C4_FirstInListOrder ==
    cycle.status \in {"completed", "noAnchor"} =>
        IF CandidateListPositions # {}
        THEN /\ Completed
             /\ CycleAnchor.itemId = list[Least(CandidateListPositions)].id
             /\ {CycleAnchor.offset} = OffsetsOf(CycleBefore.renderedItems, CycleAnchor.itemId)
        ELSE IF Len(list) > 0
        THEN Completed /\ CycleAnchor.itemId = list[1].id /\ CycleAnchor.offset = 0
        ELSE cycle.status = "noAnchor"

\* C4 (amended): the same, with "first" taken in the order of the rendered
\* items, which is the order the list had when they were projected.
C4_FirstInRenderedOrder ==
    cycle.status \in {"completed", "noAnchor"} =>
        IF CandidatePositions # {}
        THEN /\ Completed
             /\ CycleAnchor.rule = 1
             /\ CycleAnchor.itemId
                    = CycleBefore.renderedItems[Least(CandidatePositions)].itemId
             /\ CycleAnchor.offset
                    = CycleBefore.renderedItems[Least(CandidatePositions)].offset
        ELSE IF Len(list) > 0
        THEN /\ Completed
             /\ CycleAnchor.rule = 2
             /\ CycleAnchor.itemId = list[1].id
             /\ CycleAnchor.offset = 0
        ELSE cycle.status = "noAnchor"

\* a cycle with two candidates, anchored on the one that comes later in the list
C4_Witness ==
    /\ Completed
    /\ Cardinality(CandidatePositions) >= 2
    /\ CycleAnchor.itemId # list[Least(CandidateListPositions)].id

\* C5: the projection has one entry per list item, in list order; the anchor
\* item sits at anchor.offset, every entry follows the previous one at the
\* previous offset plus the previous height, and the first entry sits at
\* anchor.offset minus the heights of the items before the anchor.
RECURSIVE SumOfHeights(_, _)
SumOfHeights(items, n) ==
    IF n = 0 THEN 0 ELSE SumOfHeights(items, n - 1) + items[n].height

C5_Projection ==
    Completed =>
        /\ Len(Projection) = Len(list)
        /\ \A i \in 1..Len(list) : Projection[i].itemId = list[i].id
        /\ \A i \in 1..Len(list) :
               Projection[i].itemId = CycleAnchor.itemId
                   => /\ Projection[i].offset = CycleAnchor.offset
                      /\ Projection[1].offset
                             = CycleAnchor.offset - SumOfHeights(Projection, i - 1)
        /\ \A i \in 1..(Len(list) - 1) :
               Projection[i + 1].offset = Projection[i].offset + Projection[i].height

\* a projection of three items of different heights around an anchor in the middle
C5_Witness ==
    /\ Completed
    /\ Len(Projection) = 3
    /\ Projection[1].itemId # CycleAnchor.itemId
    /\ CycleAnchor.offset # 0
    /\ Projection[1].height # Projection[2].height

\* C6: after a completed cycle every list item whose projected rectangle
\* intersects the target buffered viewport (the viewport extended on both sides
\* by ratio x viewport height, the minimum ratio unless the cycle started idle
\* with the initial anchoring over) is in the rendered slice.
TargetRatio ==
    IF CycleBefore.isIdle /\ ~CycleBefore.isInitialAnchoring
    THEN opts.preferredOffscreenToViewportRatio
    ELSE opts.minimumOffscreenToViewportRatio

\* item i of the projection overlaps the buffered viewport; the comparison is
\* multiplied by the ratio's denominator
InTargetBuffer(i) ==
    LET r == TargetRatio
        top == r.den * viewTop - r.num * opts.viewportHeight
        bottom == r.den * (viewTop + opts.viewportHeight) + r.num * opts.viewportHeight
    IN  /\ r.den * (Projection[i].offset + Projection[i].height) > top
        /\ r.den * Projection[i].offset < bottom

C6_BufferCovered ==
    Completed =>
        \A i \in 1..Len(Projection) :
            InTargetBuffer(i) =>
                /\ slice.start <= i - 1 /\ i - 1 < slice.end
                /\ \E j \in 1..Len(renderedItems) : renderedItems[j] = Projection[i]

\* a cycle while scrolling whose buffered viewport needs items the previous
\* slice did not hold, and not all of the list
C6_Witness ==
    /\ Completed
    /\ ~CycleBefore.isIdle
    /\ \E i \in 1..Len(Projection) :
           InTargetBuffer(i) /\ ~(CycleBefore.slice.start <= i - 1 /\ i - 1 < CycleBefore.slice.end)
    /\ \E i \in 1..Len(Projection) : ~InTargetBuffer(i)
    /\ CycleBefore.slice.end > CycleBefore.slice.start

\* C10 as stated: a cycle uses the preferred buffer exactly when no scroll or
\* viewport-resize activity is pending and the initial anchoring is over.
ActivityPending == scrollEndPending \/ throttleState = "pending"

FirstCycle ==
    /\ Completed
    /\ opts = ExampleOptions
    /\ CycleBefore.renderedItems = <<>>
    /\ CycleBefore.heights = EmptyMap
    /\ CycleBefore.slice = Slice(0, 0)
    /\ viewTop = 0

\* C7 as stated: the first cycle's anchor is item 0 at offset 0 and the
\* rendered slice includes at least the indices [0,16).
C7_FirstSliceIncludes16 ==
    FirstCycle =>
        /\ CycleAnchor.itemId = list[1].id /\ CycleAnchor.offset = 0
        /\ slice.start = 0 /\ slice.end >= 16

\* C7 (amended): the first cycle's anchor is item 0 at offset 0 and the rendered
\* slice is exactly [0,12): the buffered viewport is [-400,1200) px, half of the
\* buffer lies above the top of the list, and the rendered items are items
\* 0..11 at offsets 0, 100, ..., 1100 px.
C7_FirstSliceIs12 ==
    FirstCycle =>
        /\ CycleAnchor.itemId = list[1].id /\ CycleAnchor.offset = 0
        /\ cycle.targetBufferRect = Rectangle(0 - Px(400), Px(1600))
        /\ slice = Slice(0, 12)
        /\ Len(renderedItems) = 12
        /\ \A i \in 1..12 :
               /\ renderedItems[i].itemId = list[i].id
               /\ renderedItems[i].offset = Px(100) * (i - 1)

C7_Witness ==
    /\ FirstCycle
    /\ Len(list) = ExampleLength
    /\ cycle.onChange
    /\ ~cycle.usePreferredBuffer

\* the previous slice of the probe contains its candidate slice
ProbeContained ==
    /\ probe.prevSlice.start <= probe.nextSlice.start
    /\ probe.nextSlice.end <= probe.prevSlice.end

\* C8: with the minimum buffer, a previous slice of width <= 50 that contains
\* the candidate slice is kept unchanged, and onChange is not fired for a slice
\* change (it fires only for an update tagged as a height change).
C8_AntiThrash ==
    (/\ probe.done
     /\ ~probe.usePreferredBuffer
     /\ ProbeContained
     /\ probe.prevSlice.end - probe.prevSlice.start <= 50) =>
        /\ probe.adjusted = probe.prevSlice
        /\ probe.slice = probe.prevSlice
        /\ ~probe.sliceChanged
        /\ probe.onChange <=> (probe.reason = HEIGHT_CHANGE)

C8_Witness ==
    /\ probe.done
    /\ ~probe.usePreferredBuffer
    /\ probe.prevSlice = Slice(10, 20)
    /\ probe.nextSlice = Slice(12, 18)
    /\ probe.adjusted = Slice(10, 20)
    /\ ~probe.onChange

\* the previous and the candidate slice of the probe overlap
ProbeOverlap ==
    /\ probe.nextSlice.start < probe.prevSlice.end
    /\ probe.nextSlice.end > probe.prevSlice.start

\* C9: with the minimum buffer, when the previous and the candidate slice
\* overlap and the previous does not contain the candidate, the adjusted slice
\* is the previous slice grown by expansion = max(prevStart - candStart,
\* candEnd - prevEnd, 0) on each boundary, clamped to the candidate slice's span.
C9_GradualExpansion ==
    (/\ probe.done
     /\ ~probe.usePreferredBuffer
     /\ ProbeOverlap
     /\ ~ProbeContained) =>
        LET expansion == Max(Max(probe.prevSlice.start - probe.nextSlice.start,
                                 probe.nextSlice.end - probe.prevSlice.end), 0)
        IN  /\ probe.adjusted.start
                   = Max(probe.prevSlice.start - expansion, probe.nextSlice.start)
            /\ probe.adjusted.end
                   = Min(probe.prevSlice.end + expansion, probe.nextSlice.end)
            /\ probe.adjusted.start >= probe.nextSlice.start
            /\ probe.adjusted.end <= probe.nextSlice.end
\* a step in which the observer delivered the entry of a registered cell
MeasurementStep ==
    /\ cells' = cells
    /\ viewport' = viewport
    /\ Unobserved # {}
    /\ <<heights, pendingHeightUpdates, cycle>> # <<heights, pendingHeightUpdates, cycle>>'

\* id may be the item whose floored height was staged in this step
StagedBy(n) == MapSet(pendingHeightUpdates, cells[n], Floor(domHeight[n]))

\* every rendered item has a committed height or a height in staged
AllRenderedHaveHeights(staged) ==
    \A i \in 1..Len(renderedItems) :
        Has(heights, renderedItems[i].itemId) \/ Has(staged, renderedItems[i].itemId)

\* the ledger with every entry of staged committed
Committed(staged) ==
    [id \in DOMAIN heights \cup DOMAIN staged |->
        IF Has(staged, id) THEN staged[id] ELSE heights[id]]

\* C11: after a changed measurement is staged, the pending entries are all
\* committed, the pending buffer is emptied and a cycle runs on the committed
\* ledger exactly when every rendered item has a committed or a pending height
\* or the pending buffer holds more than 50 entries; otherwise the measurement
\* stays pending, the ledger is unchanged and no cycle runs.
C11_BatchedFlush ==
    [][MeasurementStep =>
        \E n \in Unobserved :
            LET staged == StagedBy(n)
            IN  IF AllRenderedHaveHeights(staged) \/ Cardinality(DOMAIN staged) > 50
                THEN /\ pendingHeightUpdates' = EmptyMap
                     /\ cycle'.status # "none"
                     /\ cycle'.before[1].heights = Committed(staged)
                     /\ DOMAIN staged \subseteq DOMAIN heights'
                ELSE /\ pendingHeightUpdates' = staged
                     /\ heights' = heights
                     /\ cycle'.status = "none"
                     /\ UNCHANGED <<renderedItems, slice>>]_vars

\* a flush by completeness: three staged heights committed with fewer than 50
\* pending
C11_Witness ==
    /\ Completed
    /\ CycleBefore.lastUpdateReason = HEIGHT_CHANGE
    /\ Len(list) = 3
    /\ Cardinality(DOMAIN heights) = 3
    /\ pendingHeightUpdates = EmptyMap

\* a rendered item without a committed height whose cell is not registered, so
\* that no measurement of this step can give it a height
RenderedItemWithoutCell ==
    \E i \in 1..Len(renderedItems) :
        /\ ~Has(heights, renderedItems[i].itemId)
        /\ \A n \in DOMAIN cells : cells[n] # renderedItems[i].itemId

\* C12: while some rendered item has neither a committed nor a pending height,
\* the first 50 distinct items that stage a new height stay pending and no
\* cycle runs; the 51st measurement flushes: the 51 heights are committed, the
\* buffer is emptied, and the cycle that runs is tagged height-change and fires
\* onChange, also when the slice is unchanged.
C12_ThresholdFlush ==
    [][(MeasurementStep /\ RenderedItemWithoutCell) =>
        IF Cardinality(DOMAIN pendingHeightUpdates) < 50
        THEN /\ Cardinality(DOMAIN pendingHeightUpdates')
                    = Cardinality(DOMAIN pendingHeightUpdates) + 1
             /\ cycle'.status = "none"
             /\ heights' = heights
        ELSE /\ Cardinality(DOMAIN pendingHeightUpdates) = 50
             /\ pendingHeightUpdates' = EmptyMap
             /\ cycle'.status = "completed"
             /\ cycle'.before[1].lastUpdateReason = HEIGHT_CHANGE
             /\ Cardinality(DOMAIN cycle'.before[1].heights) = 51
             /\ cycle'.onChange]_vars

\* the cycle of a threshold flush: 51 heights committed at its start, an item
\* still rendered without a height, onChange fired with the slice unchanged
C12_Witness ==
    /\ Completed
    /\ CycleBefore.lastUpdateReason = HEIGHT_CHANGE
    /\ Cardinality(DOMAIN CycleBefore.heights) = 51
    /\ \E i \in 1..Len(renderedItems) : ~Has(heights, renderedItems[i].itemId)
    /\ slice = CycleBefore.slice
    /\ cycle.onChange
Span(items) ==
    IF Len(items) = 0 THEN 0
    ELSE items[Len(items)].offset + items[Len(items)].height - items[1].offset

\* C14 as stated: after a completed cycle the total height is the span between
\* the first and the last rendered item.
C14_RenderedSpan ==
    Completed => listHeightWithHeadRoom = Span(renderedItems)

\* C14 (amended): after a completed cycle the total height is the span of the
\* full projection, from the top of the first list item to the bottom of the
\* last list item, whichever items are rendered.
C14_ProjectionSpan ==
    Completed => listHeightWithHeadRoom = Span(Projection)

\* a cycle that renders a proper, non-empty part of the list
C14_Witness ==
    /\ Completed
    /\ Len(renderedItems) > 0
    /\ Len(renderedItems) < Len(Projection)
    /\ listHeightWithHeadRoom # Span(renderedItems)
    /\ listHeightWithHeadRoom > 0

\* every rendered item has a committed height (in the state after the step)
HeightsReadyAfter ==
    \A i \in 1..Len(renderedItems') : Has(heights', renderedItems'[i].itemId)

\* C15: the initial-anchoring flag is never set again once cleared; it is
\* cleared only by a completed cycle whose rendered items all have committed
\* heights, and every completed cycle whose rendered items all have committed
\* heights leaves it cleared.
C15_OneWay ==
    [][/\ isInitialAnchoring' => isInitialAnchoring
       /\ (isInitialAnchoring /\ ~isInitialAnchoring')
              => (cycle'.status = "completed" /\ HeightsReadyAfter)
       /\ (cycle'.status = "completed" /\ HeightsReadyAfter) => ~isInitialAnchoring']_vars

\* after the flag was cleared, a cycle renders items of a list without any
\* committed height
C15_Witness ==
    /\ Completed
    /\ ~isInitialAnchoring
    /\ ~CycleBefore.isInitialAnchoring
    /\ Len(renderedItems) > 0
    /\ \A i \in 1..Len(list) : ~Has(heights, list[i].id)
    /\ heights # EmptyMap
\* C16: for one zone and one snapshot, previous unset and current inside gives
\* initial_position; previous outside and current inside gives movement;
\* previous inside and current inside with another list length gives
\* list_update; every other transition calls nothing; the current proximity
\* and list length are stored in every case.
C16_TriggerTable ==
    probe.done =>
        LET prev == probe.state.proximity
            cur == probe.newState.proximity
            len == probe.positioning.listLength
        IN  /\ cur \in {INSIDE, OUTSIDE}
            /\ probe.newState.listLength = len
            /\ probe.triggerCause =
                   CASE prev = NoProximity /\ cur = INSIDE -> INITIAL_POSITION
                     [] prev = OUTSIDE /\ cur = INSIDE -> MOVEMENT
                     [] prev = INSIDE /\ cur = INSIDE /\ probe.state.listLength # len
                            -> LIST_UPDATE
                     [] OTHER -> NoTrigger

\* a zone that stays inside while the list grows from 100 to 150 items
C16_Witness ==
    /\ probe.done
    /\ probe.state = [proximity |-> INSIDE, listLength |-> 100]
    /\ probe.newState = [proximity |-> INSIDE, listLength |-> 150]
    /\ probe.triggerCause = LIST_UPDATE

ListIds == {list[i].id : i \in 1..Len(list)}

CellIds == {cells[n] : n \in DOMAIN cells}

LedgerKeys == DOMAIN heights \cup DOMAIN pendingHeightUpdates

\* C18 as stated: at every point the keys of the height ledger and the keys
\* of the pending buffer are ids of the most recently supplied list
C18_KeysWithinList == LedgerKeys \subseteq ListIds

\* C18, amended: a key enters the ledger or the pending buffer only for the
\* id of a registered cell, a committed key is never removed, a staged key
\* leaves the buffer only by being committed, and a step that replaces the
\* list leaves both mappings as they were (it removes no key)
C18_KeysOnlyFromCells ==
    [][/\ (LedgerKeys' \ LedgerKeys) \subseteq CellIds
       /\ DOMAIN heights \subseteq DOMAIN heights'
       /\ DOMAIN pendingHeightUpdates
              \subseteq (DOMAIN pendingHeightUpdates' \cup DOMAIN heights')
       /\ (list' # list =>
              heights' = heights /\ pendingHeightUpdates' = pendingHeightUpdates)]_vars

\* a cycle has completed over a list that lacks an id of the ledger
C18_Witness ==
    /\ Completed
    /\ \E id \in DOMAIN heights : id \notin ListIds
    /\ \E id \in DOMAIN heights : id \in ListIds
(***************************************************************************)
(* C19: negative and non-finite measurements                               *)
(***************************************************************************)
\* the observer delivers an entry whose height is negative, NaN, +Infinity,
\* -Infinity or missing, for a registered cell
InvalidReportStep ==
    \E n \in Nodes, raw \in InvalidReports : Has(cells, n) /\ MeasureEntry(n, raw)

\* C19 as stated: a reported measurement that is negative or non-finite is
\* discarded: the ledger, the pending buffer, the rendered items and the
\* slice are unchanged and no cycle is run
C19_InvalidReportDiscarded ==
    [][InvalidReportStep =>
           /\ UNCHANGED <<heights, pendingHeightUpdates, renderedItems, slice>>
           /\ cycle' = NoCycle]_vars
(***************************************************************************)
(* C20: setList and the heights it leaves behind                           *)
(***************************************************************************)
\* a step that replaces the list queues one frame callback and changes
\* nothing else of the engine
SetListFrame ==
    list' # list =>
        /\ rafQueue' = rafQueue + 1
        /\ UNCHANGED <<opts, renderedItems, slice, listHeightWithHeadRoom, heights,
                       pendingHeightUpdates, cells, domHeight, isIdle,
                       isInitialAnchoring, lastUpdateReason, viewport, viewTop,
                       throttleState, scrollEndPending, zones>>

\* the ids that had a committed height when the cycle started and are in the
\* list the cycle projected
KeptIds == DOMAIN CycleBefore.heights \cap ListIds

ProjectedHeight(id) ==
    LET i == CHOOSE k \in 1..Len(Projection) : Projection[k].itemId = id
    IN  Projection[i].height

BoundingHeight(id) ==
    LET n == CHOOSE m \in DOMAIN cells : cells[m] = id
    IN  domHeight[n]

\* the first completed cycle after setList took a rendered item out of the list
AfterSetList ==
    /\ Completed
    /\ \E i \in 1..Len(CycleBefore.renderedItems) :
           CycleBefore.renderedItems[i].itemId \notin ListIds

\* C20 as stated: setList replaces the list, schedules a recomputation and
\* changes nothing else, and an id that is in the list and had a committed
\* height is projected with that height in the next cycle
C20_KeptHeightProjected ==
    /\ [][SetListFrame]_vars
    /\ [](AfterSetList =>
             \A id \in KeptIds :
                 ProjectedHeight(id)
                     = RoundToDevicePixelRatio(CycleBefore.heights[id], DevicePixelRatio))

\* C20, amended: setList replaces the list, schedules a recomputation and
\* changes nothing else; in every completed cycle, the one that follows
\* setList included, an id that is in the list and had a committed height
\* is projected with that height when no cell is registered for it, and
\* with the bounding height of its cell, which the cycle commits before it
\* projects, when one is
C20_KeptOrRemeasuredHeightProjected ==
    /\ [][SetListFrame]_vars
    /\ [](Completed =>
             \A id \in KeptIds :
                 /\ id \notin CellIds =>
                        /\ heights[id] = CycleBefore.heights[id]
                        /\ ProjectedHeight(id)
                               = RoundToDevicePixelRatio(CycleBefore.heights[id],
                                                         DevicePixelRatio)
                 /\ id \in CellIds =>
                        /\ heights[id] = BoundingHeight(id)
                        /\ ProjectedHeight(id)
                               = RoundToDevicePixelRatio(BoundingHeight(id),
                                                         DevicePixelRatio))

\* a cycle has completed over a list that lost an item the engine had
\* rendered, and an id that stayed, with no cell registered, is projected
\* with its committed height of 1.5px, which is not the assumed height
C20_Witness ==
    /\ AfterSetList
    /\ \E id \in KeptIds :
           /\ id \notin CellIds
           /\ CycleBefore.heights[id] = Px(1) + 1
           /\ ProjectedHeight(id) = Px(2)
           /\ ProjectedHeight(id) # opts.assumedItemHeight
(***************************************************************************)
(* C21: the release handle and the null node                               *)
(***************************************************************************)
EngineState ==
    <<opts, list, renderedItems, slice, listHeightWithHeadRoom, heights,
      pendingHeightUpdates, cells, domHeight, isIdle, isInitialAnchoring,
      lastUpdateReason, viewport, viewTop, rafQueue, throttleState, scrollEndPending,
      zones>>

\* C21: a call of the release handle leaves the node unregistered and
\* unobserved and touches nothing but the registration; a call for a node
\* that is not registered (a second or later call) changes no state; an
\* observer entry for a node that is not registered changes no state; and
\* measureElement with the null node registers nothing
C21_ReleaseIdempotent ==
    [][/\ \A n \in Nodes :
              ReleaseCall(n) =>
                  /\ ~Has(cells', n)
                  /\ ~Has(domHeight', n)
                  /\ \A m \in DOMAIN cells \ {n} : Has(cells', m) /\ cells'[m] = cells[m]
                  /\ UNCHANGED <<heights, pendingHeightUpdates, renderedItems, slice,
                                 listHeightWithHeadRoom, list, rafQueue, zones>>
                  /\ cycle' = NoCycle
                  /\ (~Has(cells, n) => UNCHANGED EngineState)
       /\ \A n \in Nodes, raw \in ReportedHeights :
              (~Has(cells, n) /\ MeasureEntry(n, raw)) =>
                  UNCHANGED EngineState /\ cycle' = NoCycle
       /\ \A h \in DomHeights :
              MeasureElementCall(NullNode, NullNode, h) =>
                  UNCHANGED EngineState /\ cycle' = NoCycle]_vars

\* the release handle of a node was called when the node was no longer
\* registered, after the engine had committed a height for a cell that is gone
C21_Witness ==
    /\ probe # NoProbe
    /\ probe.op = "release"
    /\ ~probe.wasRegistered
    /\ \E id \in DOMAIN heights : id \notin CellIds
    /\ cells = EmptyMap
(***************************************************************************)
(* C22: frame coalescing                                                   *)
(***************************************************************************)
\* C22: any number of update triggers that arrive before the next animation
\* frame result in a single update cycle in that frame: at most one run of
\* _update is queued for the frame (the callbacks that are queued together
\* all run in the same frame, one cycle each)
C22_OneCyclePerFrame == rafQueue <= 1
(***************************************************************************)
(* C23: where the cycle of a height-change flush runs                      *)
(***************************************************************************)
\* the observer delivers an entry for a registered cell
ObserverStep ==
    \E n \in Nodes, raw \in ReportedHeights : Has(cells, n) /\ MeasureEntry(n, raw)

C24_QuiescentAfterTeardown ==
    [][viewport = "detached" =>
           /\ UNCHANGED <<renderedItems, slice, listHeightWithHeadRoom, isIdle>>
           /\ ~cycle'.onChange
           /\ cycle'.positioning = <<>>]_vars
(***************************************************************************)
(* C25: the empty list                                                     *)
(***************************************************************************)
\* a run of _update got past the viewport check
CycleWithViewport == cycle.status \in {"completed", "noAnchor"}

\* C25: a cycle over an empty list aborts: it makes no projection, leaves
\* the rendered items, the slice and the total height as they were, fires
\* neither onChange nor a positioning notification nor a zone callback and
\* leaves the zones as they were; a cycle over a list that is not empty
\* completes
C25_EmptyListAborts ==
    CycleWithViewport =>
        /\ Len(list) = 0 <=> cycle.status = "noAnchor"
        /\ Len(list) = 0 =>
               /\ Projection = <<>>
               /\ renderedItems = CycleBefore.renderedItems
               /\ slice = CycleBefore.slice
               /\ listHeightWithHeadRoom = CycleBefore.listHeightWithHeadRoom
               /\ zones = CycleBefore.zones
               /\ ~cycle.onChange
               /\ cycle.positioning = <<>>
               /\ cycle.triggers = <<>>
        /\ Len(list) > 0 => Completed /\ Len(Projection) = Len(list)

\* a cycle has aborted over an empty list while items of the list it
\* replaced are still rendered
C25_Witness ==
    /\ cycle.status = "noAnchor"
    /\ Len(list) = 0
    /\ renderedItems # <<>>
    /\ slice.end > 0
(***************************************************************************)
(* C26: unresolved geometry                                                *)
(***************************************************************************)
GeometryResolved == viewport # "none" /\ opts.rootElement

\* C26: a run of _update without a viewport or without a root element, the
\* run of a height flush included, aborts: the rendered items, the slice,
\* the total height and the zones stay as they were and nothing is notified;
\* a run with the viewport and the root element does not abort for the
\* geometry, and completes when the list is not empty
C26_UnresolvedGeometryAborts ==
    cycle.status # "none" =>
        /\ cycle.status \in {"noViewport", "noRect"} <=> ~GeometryResolved
        /\ ~GeometryResolved =>
               /\ Projection = <<>>
               /\ renderedItems = CycleBefore.renderedItems
               /\ slice = CycleBefore.slice
               /\ listHeightWithHeadRoom = CycleBefore.listHeightWithHeadRoom
               /\ zones = CycleBefore.zones
               /\ ~cycle.onChange
               /\ cycle.positioning = <<>>
               /\ cycle.triggers = <<>>
        /\ (GeometryResolved /\ Len(list) > 0) => Completed

\* the run of a height flush has aborted before mount()
C26_Witness ==
    /\ cycle.status = "noViewport"
    /\ viewport = "none"
    /\ CycleBefore.lastUpdateReason = HEIGHT_CHANGE
    /\ heights # EmptyMap
    /\ renderedItems = <<>>
(***************************************************************************)
(* C27: the resolved height                                                *)
(***************************************************************************)
\* one device pixel, in the unit of the lengths
DevicePixel == Px(1) \div DevicePixelRatio

\* r is v rounded up to the next multiple of a device pixel
RoundedUp(r, v) == r % DevicePixel = 0 /\ r >= v /\ r - v < DevicePixel

\* C27 as stated: the resolved height of an item with a committed height is
\* exactly the committed height, and that of an item without one is the
\* assumed height rounded up to the next device pixel
C27_CommittedHeightExact ==
    (probe # NoProbe /\ probe.done) =>
        IF Has(heights, 1)
        THEN probe.height = heights[1]
        ELSE RoundedUp(probe.height, opts.assumedItemHeight)

\* C27, amended: the resolved height of an item with a committed finite
\* height is the committed height rounded up to the next device pixel, and
\* that of an item with no committed height, or with one that is not finite,
\* is the assumed height rounded up to the next device pixel
C27_ResolvedHeightRoundedUp ==
    (probe # NoProbe /\ probe.done) =>
        IF Has(heights, 1) /\ heights[1] \notin NonFinite
        THEN RoundedUp(probe.height, heights[1])
        ELSE RoundedUp(probe.height, opts.assumedItemHeight)

\* a committed height of 1.5px was resolved to 2px with an assumed height of
\* 2.5px
C27_Witness ==
    /\ probe # NoProbe
    /\ probe.done
    /\ Has(heights, 1)
    /\ heights[1] = Px(1) + 1
    /\ opts.assumedItemHeight = Px(2) + 1
    /\ probe.height = Px(2)
(***************************************************************************)
(* C28: scroll-end detection                                               *)
(***************************************************************************)
\* _handleScroll accepted a scroll event
AcceptedScroll ==
    /\ viewTop' # viewTop
    /\ viewport = "mounted"
    /\ ~isInitialAnchoring
    /\ viewTop' >= 0

\* the debounced _updateScrollEnd ran
ScrollEnded == scrollEndPending /\ ~scrollEndPending'

\* C28: every accepted scroll event makes the engine non-idle and arms the
\* scroll-end debounce; the debounce fires once, making the engine idle and
\* queuing an update; the engine is non-idle only while the debounce is
\* armed, and a non-idle engine eventually becomes idle again
C28_ScrollEndEventually ==
    /\ [][AcceptedScroll => ~isIdle' /\ scrollEndPending']_vars
    /\ [][ScrollEnded => isIdle' /\ rafQueue' = rafQueue + 1]_vars
    /\ [](~isIdle => scrollEndPending)
    /\ (~isIdle ~> isIdle)

\* the scroll-end has fired after an accepted scroll: the engine is idle
\* again, the throttle window of the scroll is still open, and the frame
\* callbacks of the scroll and of the scroll-end are both queued
C28_Witness ==
    /\ isIdle
    /\ ~scrollEndPending
    /\ ~isInitialAnchoring
    /\ throttleState = "wait"
    /\ rafQueue = 2
(***************************************************************************)
(* C29: what a flush commits                                               *)
(***************************************************************************)
\* a measurement callback flushed the pending buffer and ran the cycle
FlushStep ==
    /\ rafQueue' = rafQueue
    /\ viewport' = viewport
    /\ cycle'.status # "none"

\* C29: a flush commits, for every item that had a pending height, the
\* floored height of the most recent valid measurement reported for that
\* item, never a pending height that a later measurement superseded
C29_FlushCommitsLatestReport ==
    [][FlushStep =>
           \A id \in DOMAIN pendingHeightUpdates :
               cycle'.before[1].heights[id] = probe'.reported[id]]_vars
(***************************************************************************)
(* C30: changes of the rendered items and onChange                         *)
(***************************************************************************)
\* what the rendering layer reads of the rendered items
Content(items) ==
    [i \in 1..Len(items) |-> <<items[i].itemId, items[i].offset, items[i].visible>>]

\* C30: a completed cycle that leaves rendered items with other ids,
\* offsets or visible flags than it found fires onChange
C30_ChangeFiresOnChange ==
    (Completed /\ Content(renderedItems) # Content(CycleBefore.renderedItems)) =>
        cycle.onChange

\* the number of items a slice spans
SliceWidth(sl) == sl.end - sl.start

\* C31: in a cycle that uses the minimum buffer, the adjusted slice is at most
\* as wide as the wider of the previous slice and the candidate slice.
C31_BoundedWindowGrowth ==
    (probe.done /\ ~probe.usePreferredBuffer) =>
        SliceWidth(probe.adjusted)
            <= Max(SliceWidth(probe.prevSlice), SliceWidth(probe.nextSlice))

\* an overlapping candidate shifts the window without widening it
C31_Witness ==
    /\ probe.done
    /\ ~probe.usePreferredBuffer
    /\ probe.prevSlice = Slice(0, 3)
    /\ probe.nextSlice = Slice(2, 4)
    /\ probe.adjusted = Slice(1, 4)

(***************************************************************************)
(* C32: progress of the initial anchoring                                  *)
(***************************************************************************)
\* the state a cycle leaves behind that found every rendered item with a
\* committed height: the phase is over and the snapshot is published
AnchoringDone ==
    /\ Completed
    /\ GetIsHeightsReady(heights, renderedItems)
    /\ ~isInitialAnchoring
    /\ cycle.positioning # <<>>

IgnoredScroll ==
    /\ viewTop' # viewTop
    /\ viewport = "mounted"
    /\ isInitialAnchoring \/ viewTop' < 0

\* C33: a scroll event received during the initial anchoring, or at a
\* negative scroll position, changes no engine state: the idle flag keeps its
\* value, the scroll-end debounce is not armed and no update is scheduled,
\* neither directly nor through the throttle.
C33_IgnoredScrollChangesNothing ==
    [][IgnoredScroll =>
          UNCHANGED <<isIdle, scrollEndPending, rafQueue, throttleState, list,
                      renderedItems, slice, listHeightWithHeadRoom, heights,
                      pendingHeightUpdates, cells, isInitialAnchoring,
                      lastUpdateReason, viewport, zones>>]_vars

\* the viewport was scrolled down during the initial anchoring of a mounted
\* engine with rendered items: the engine is idle and nothing is scheduled
C33_Witness ==
    /\ viewport = "mounted"
    /\ isInitialAnchoring
    /\ Len(renderedItems) > 0
    /\ viewTop > 0
    /\ isIdle
    /\ ~scrollEndPending
    /\ rafQueue = 0
    /\ throttleState = "idle"

(***************************************************************************)
(* C34: a release handle and a newer registration of its node              *)
(***************************************************************************)
\* a handle is called whose node has been registered again since the handle
\* was issued, and is still registered
StaleHandleCall ==
    /\ probe'.calls = probe.calls + 1
    /\ Has(cells, probe'.called.node)
    /\ probe.current[probe'.called.node] # probe'.called.at

\* C34: calling a release handle after its node was registered again leaves
\* the newer registration of the node and its observation in place.
C34_StaleHandleKeepsNewerRegistration ==
    [][StaleHandleCall => cells' = cells /\ domHeight' = domHeight]_vars

(***************************************************************************)
(* C35: the causes a zone reports over the lifetime of its manager         *)
(***************************************************************************)
\* C35: a zone reports initial_position only on the first snapshot it
\* evaluates, hence at most once; a zone whose first evaluation was OUTSIDE
\* never reports it; and a zone that reported movement reports movement again
\* only after a snapshot on which it evaluated OUTSIDE.
C35_ZoneCauseHistory ==
    /\ [][\A z \in ZoneIndices :
              probe'.triggers[z] = INITIAL_POSITION => ~probe.started]_vars
    /\ [](\A z \in ZoneIndices : probe.initial[z] <= 1)
    /\ [](\A z \in ZoneIndices : probe.first[z] = OUTSIDE => probe.initial[z] = 0)
    /\ [][\A z \in ZoneIndices :
              (probe'.triggers[z] = MOVEMENT /\ probe.moved[z]) =>
                  probe.outsideSince[z]]_vars

\* the zone at the start reported initial_position on its first snapshot, the
\* zone at the end evaluated OUTSIDE first; both left their range and came back
\* after an earlier movement callback
C35_Witness ==
    /\ probe.started
    /\ probe.initial[1] = 1
    /\ probe.first[1] = INSIDE
    /\ probe.first[4] = OUTSIDE
    /\ probe.initial[4] = 0
    /\ probe.moved[1]
    /\ probe.triggers[1] = MOVEMENT
    /\ probe.moved[4]
    /\ probe.triggers[4] = MOVEMENT
====
